---- MODULE Spec2Model ----
(***************************************************************************)
(* A model of the fondue cache engine (src/fondue/src/cache.rs).           *)
(*                                                                         *)
(* One Cache<K, V> is shared by the threads of the process.  Its storage   *)
(* is a DashMap: a fixed array of shards, each a hash table behind its own *)
(* reader/writer lock.  Every DashMap call locks the shard(s) it needs:    *)
(*   get(k)        read lock of k's shard, held by the returned Ref        *)
(*   get_mut(k)    write lock of k's shard, held by the returned RefMut    *)
(*   insert/remove write lock of k's shard for the duration of the call    *)
(*   iter()        read lock of one shard after the other                  *)
(*   len()         read lock of one shard after the other                  *)
(*   clear()       write lock of one shard after the other                 *)
(* The locks are not re-entrant.  A step of the model is one DashMap call, *)
(* one atomic counter access, one clock read or one step of the caller's   *)
(* compute; the clock (Instant::now) advances between any two steps.       *)
(***************************************************************************)
EXTENDS Integers, Sequences, FiniteSets, TLC

(***************************************************************************)
(* Bounds of the model.                                                    *)
(***************************************************************************)
MaxKey == 2
NShards == 2
NThreads == 2
MaxTime == 1
MaxValue == 1
MaxLimit == 1
MaxTtl == 1
MaxGets == 1
MaxCalls == 2
MaxHandles == 2
MaxCount == 1
MaxNsLen == 2
MaxStrLen == 3

Keys == 1..MaxKey
Shards == 1..NShards
Threads == 1..NThreads
Values == 1..MaxValue

(***************************************************************************)
(* Option<T>: None is the empty sequence, Some(x) the sequence <<x>>.      *)
(***************************************************************************)
None == <<>>
Some(x) == <<x>>

(***************************************************************************)
(* EvictionPolicy and the policies a cache of the model is built with.     *)
(***************************************************************************)
EvictionPolicy(kind, limit, duration, ttl_type) ==
    [kind |-> kind, limit |-> limit, duration |-> duration, ttl_type |-> ttl_type]

TtlType == {"Fixed", "Sliding"}

Policies ==
    {EvictionPolicy("None", None, None, None)}
    \cup {EvictionPolicy("Lru", Some(c), None, None) : c \in 0..MaxLimit}
    \cup {EvictionPolicy("Ttl", None, Some(d), Some(k)) : d \in 1..MaxTtl, k \in TtlType}
    \cup {EvictionPolicy("LruTtl", Some(c), Some(d), Some(k)) :
             c \in 0..MaxLimit, d \in 1..MaxTtl, k \in TtlType}

(***************************************************************************)
(* CacheEntry.                                                             *)
(***************************************************************************)
CacheEntry_new(value, ttl, ttl_type, t) ==
    [value |-> value, created_at |-> t, last_accessed |-> t,
     access_count |-> 0, ttl |-> ttl, ttl_type |-> ttl_type]

\* is_expired with the boundary instant still alive
is_expired_late(e, t) ==
    IF e.ttl # None /\ e.ttl_type # None
    THEN IF e.ttl_type[1] = "Sliding"
         THEN t - e.last_accessed > e.ttl[1]
         ELSE t - e.created_at > e.ttl[1]
    ELSE FALSE

is_expired(e, t) ==
    IF e.ttl # None /\ e.ttl_type # None
    THEN IF e.ttl_type[1] = "Sliding"
         THEN t - e.last_accessed >= e.ttl[1]
         ELSE t - e.created_at >= e.ttl[1]
    ELSE FALSE

\* touch that resets last_accessed instead of refreshing it
touch_reset(e, t) ==
    [e EXCEPT !.access_count = @ + 1, !.last_accessed = 0]

touch(e, t) ==
    [e EXCEPT !.access_count = @ + 1, !.last_accessed = t]

(***************************************************************************)
(* The (ttl, ttl_type) pair get and insert derive from the policy.         *)
(***************************************************************************)
\* the pair with a default TTL for the policies without one
PolicyTtl_default(p) ==
    IF p.kind \in {"Ttl", "LruTtl"} THEN <<p.duration, p.ttl_type>>
    ELSE <<Some(1), Some("Fixed")>>

PolicyTtl(p) ==
    IF p.kind \in {"Ttl", "LruTtl"} THEN <<p.duration, p.ttl_type>> ELSE <<None, None>>

(***************************************************************************)
(* The DashMap: a partial function from keys to entries, and the shard a   *)
(* key hashes to.                                                          *)
(***************************************************************************)
EmptyMap == [k \in {} |-> 0]
Put(m, k, e) == [x \in (DOMAIN m) \cup {k} |-> IF x = k THEN e ELSE m[x]]
Remove(m, k) == [x \in (DOMAIN m) \ {k} |-> m[x]]
ShardOf(k) == ((k - 1) % NShards) + 1
ShardKeys(m, s) == {k \in DOMAIN m : ShardOf(k) = s}
RemoveShard(m, s) == [x \in (DOMAIN m) \ ShardKeys(m, s) |-> m[x]]

(***************************************************************************)
(* The orders in which an iteration may yield the members of a set: the    *)
(* order of a hash table's buckets is not specified.                       *)
(***************************************************************************)
Orderings(S) ==
    {q \in [1..Cardinality(S) -> S] :
        \A i, j \in 1..Cardinality(S) : i # j => q[i] # q[j]}

(***************************************************************************)
(* evict_lru's ordering: last_accessed, then created_at; sort_by is a      *)
(* stable sort, take(count) keeps the first count elements.                *)
(***************************************************************************)
cmp(a, b) ==
    IF a.last_accessed < b.last_accessed THEN -1
    ELSE IF a.last_accessed > b.last_accessed THEN 1
    ELSE IF a.created_at < b.created_at THEN -1
    ELSE IF a.created_at > b.created_at THEN 1
    ELSE 0

InsertSorted(x, s) ==
    LET later == {i \in 1..Len(s) : cmp(x, s[i]) < 0}
        pos == IF later = {} THEN Len(s) + 1
               ELSE CHOOSE i \in later : \A j \in later : i <= j
    IN  SubSeq(s, 1, pos - 1) \o <<x>> \o SubSeq(s, pos, Len(s))

RECURSIVE sort_by(_)
sort_by(s) ==
    IF s = <<>> THEN <<>>
    ELSE InsertSorted(s[Len(s)], sort_by(SubSeq(s, 1, Len(s) - 1)))

Take(s, n) == SubSeq(s, 1, IF n < Len(s) THEN n ELSE Len(s))

SnapshotOf(m, k) ==
    [key |-> k, last_accessed |-> m[k].last_accessed, created_at |-> m[k].created_at]

(***************************************************************************)
(* hit_rate: hits / total as the pair <<hits, total>>, 0.0 as <<0, 1>>.    *)
(***************************************************************************)
\* the quotient without the test for no requests
hit_rate_unguarded(h, m) == <<h, h + m>>

hit_rate(h, m) == IF h + m = 0 THEN <<0, 1>> ELSE <<h, h + m>>

(***************************************************************************)
(* State.                                                                  *)
(***************************************************************************)
VARIABLES
    policy,     \* Cache.policy
    storage,    \* Cache.storage: key -> CacheEntry
    writer,     \* per shard: the thread holding its write lock, 0 if none
    hits,       \* Cache.hits
    misses,     \* Cache.misses
    stats,      \* the stats collector: cache name -> latest CacheStats registered
    now,        \* the monotonic clock read by Instant::now()
    pc,         \* per thread: where it is in the call it makes
    op,         \* per thread: the call it makes
    loc,        \* per thread: the locals of that call
    result,     \* per thread: what the call returns (an Option)
    pre,        \* per thread: storage and counters when the call began
    nGets,      \* calls of get made so far
    nCalls,     \* calls made so far, counted up to MaxCalls
    last,       \* per thread: the call that has just returned, until the next call
    script,     \* the calls the caller is going to make, when it follows a scenario
    answers,    \* the results of the calls of the scenario made so far
    handles,    \* the handles of the cache: the one built first, then its clones
    via,        \* per thread: the handle its call is made through, 0 between calls
    ended,      \* of the calls that have returned: how many counted a hit, how many
                \* a miss, and how often they invoked compute
    caches,     \* GLOBAL_CACHE_STORAGE: cache key -> the cache created for it
    created,    \* the caches the registry has created, in order: what each is for
    got,        \* per thread: what its calls of the registry have returned
    out,        \* what the last call of the stats collector, of parse_duration or
                \* of the namespace functions was and returned
    tables,     \* per cache of the registry that has entries: the keys it holds
    context,    \* CacheContext.caches: the sub-cache (its allocation) of each key
    mutex,      \* the thread that holds the Mutex of CacheContext.caches, or 0
    heap        \* the sub-caches a context allocated, in the order of creation

vars == <<policy, storage, writer, hits, misses, stats, now,
          pc, op, loc, result, pre, nGets, nCalls, last, script, answers,
          handles, via,
          ended, caches, created, got, out,
          tables,
          context, mutex, heap>>

Last0 == [name |-> "none", key |-> 0, ret |-> None]
Free == [free |-> TRUE, name |-> "", calls |-> <<>>]

Loc0 ==
    [key |-> 0, val |-> 0, arg |-> 0, ent |-> None, seen |-> None, expired |-> FALSE,
     removed |-> FALSE, prev |-> Last0,
     chk |-> 0, found |-> FALSE, cursor |-> 0, acc |-> <<>>, len |-> 0, count |-> 0,
     s_hits |-> 0, s_misses |-> 0, s_len |-> 0, r_hits |-> 0, calls |-> 0,
     cont |-> "", published |-> FALSE, failed |-> FALSE,
     cache |-> 0, asked |-> None, swept |-> 0]

Pre0 == [storage |-> EmptyMap, hits |-> 0, misses |-> 0]

(***************************************************************************)
(* A handle: the policy and three Arcs.  An Arc is named after the         *)
(* variable that holds what it points to; Arc::clone copies the pointer.   *)
(***************************************************************************)
with_policy(p) ==
    [storage |-> "storage", policy |-> p, hits |-> "hits", misses |-> "misses"]

InitCache(p, sc) ==
    /\ policy = p
    /\ script = sc
    /\ storage = EmptyMap
    /\ writer = [s \in Shards |-> 0]
    /\ hits = 0
    /\ misses = 0
    /\ stats = EmptyMap
    /\ now = 0
    /\ pc = [t \in Threads |-> "idle"]
    /\ op = [t \in Threads |-> "none"]
    /\ loc = [t \in Threads |-> Loc0]
    /\ result = [t \in Threads |-> None]
    /\ pre = [t \in Threads |-> Pre0]
    /\ nGets = 0
    /\ nCalls = 0
    /\ last = [t \in Threads |-> Last0]
    /\ answers = <<>>
    /\ handles = <<with_policy(p)>>
    /\ via = [t \in Threads |-> 0]
    /\ ended = [hits |-> 0, misses |-> 0, computes |-> 0]
    /\ caches = EmptyMap
    /\ created = <<>>
    /\ got = [t \in Threads |-> <<>>]
    /\ out = None
    /\ tables = EmptyMap
    /\ context = EmptyMap
    /\ mutex = 0
    /\ heap = <<>>

Init == \E p \in Policies : InitCache(p, Free)

Unlocked(s) == writer[s] = 0
HasLimit == policy.kind \in {"Lru", "LruTtl"}
PreNow == [storage |-> storage, hits |-> hits, misses |-> misses]

(***************************************************************************)
(* The clock.  Time passes between any two steps; the cache sees it only   *)
(* where it reads the clock (is_expired, CacheEntry::new, touch), so the   *)
(* model advances the clock only when some thread is about to read it.     *)
(* A scenario gives each call its time: the clock advances between calls.  *)
(***************************************************************************)
ClockReads ==
    IF policy.kind \in {"Ttl", "LruTtl"}
    THEN {"get_lookup", "get_touch", "get_new", "gic_check", "gic_touch",
          "insert_new", "me_scan"}
    ELSE {"get_touch", "get_new", "gic_touch", "insert_new"}

Tick ==
    /\ IF script.free
       THEN /\ now < MaxTime
            /\ \E t \in Threads : pc[t] \in ClockReads
       ELSE /\ \A t \in Threads : pc[t] = "idle"
            /\ script.calls # <<>>
            /\ now < Head(script.calls).at
    /\ now' = now + 1
    /\ UNCHANGED <<policy, storage, writer, hits, misses, stats,
                   pc, op, loc, result, pre, nGets, nCalls, last, script, answers,
                   handles, via, ended, caches, created, got, out, tables,
                   context, mutex, heap>>

(***************************************************************************)
(* A call is made freely, or as the next call of the scenario being run.   *)
(* The call that follows an invalidate of the same key remembers it.       *)
(***************************************************************************)
Call(name, k, v) == [name |-> name, key |-> k, val |-> v]

Scripted(name, k, v) ==
    \/ script.free
    \/ /\ script.calls # <<>>
       /\ Head(script.calls).call = Call(name, k, v)
       /\ Head(script.calls).at = now

Follows(t, name, k) ==
    IF last[t].name = "invalidate" /\ last[t].key = k /\ name \in {"invalidate", "get_if_cached"}
    THEN last[t] ELSE Last0

Begin(t, name, k, v) ==
    /\ pc[t] = "idle"
    /\ Scripted(name, k, v)
    /\ op' = [op EXCEPT ![t] = name]
    /\ loc' = [loc EXCEPT ![t].key = k, ![t].arg = v, ![t].prev = Follows(t, name, k),
                          ![t].cursor = IF name = "clear" THEN 1 ELSE 0]
    /\ pre' = [pre EXCEPT ![t] = PreNow]
    /\ result' = [result EXCEPT ![t] = None]
    /\ last' = [last EXCEPT ![t] = Last0]
    /\ script' = IF script.free THEN script ELSE [script EXCEPT !.calls = Tail(@)]
    /\ nCalls' = IF nCalls < MaxCalls THEN nCalls + 1 ELSE nCalls
    /\ \E h \in 1..Len(handles) : via' = [via EXCEPT ![t] = h]
    /\ UNCHANGED <<policy, storage, writer, hits, misses, stats, now, answers, handles,
                   ended, caches, created, got, out, tables, context, mutex, heap>>

(***************************************************************************)
(* Cache::update_cache_stats, entered with the place to go on at in cont.  *)
(* It loads the counters, takes len() of the storage shard by shard,       *)
(* computes hit_rate() from two more loads and registers the snapshot.     *)
(***************************************************************************)
\* the name is the address of the handle the call is made through
CacheName(h) == h

ucs_hit_count(t) ==
    /\ pc[t] = "ucs_hits"
    /\ loc' = [loc EXCEPT ![t].s_hits = hits]
    /\ pc' = [pc EXCEPT ![t] = "ucs_misses"]
    /\ UNCHANGED <<policy, storage, writer, hits, misses, stats, now,
                   op, result, pre, nGets, nCalls, last, script, answers, handles, via,
                   ended, caches, created, got, out, tables, context, mutex, heap>>

ucs_miss_count(t) ==
    /\ pc[t] = "ucs_misses"
    /\ loc' = [loc EXCEPT ![t].s_misses = misses, ![t].cursor = 1, ![t].len = 0]
    /\ pc' = [pc EXCEPT ![t] = "ucs_len"]
    /\ UNCHANGED <<policy, storage, writer, hits, misses, stats, now,
                   op, result, pre, nGets, nCalls, last, script, answers, handles, via,
                   ended, caches, created, got, out, tables, context, mutex, heap>>

\* len(): the read lock of shard cursor is granted only while no thread,
\* the caller included, holds that shard's write lock.
ucs_len(t) ==
    /\ pc[t] = "ucs_len"
    /\ Unlocked(loc[t].cursor)
    /\ LET n == loc[t].len + Cardinality(ShardKeys(storage, loc[t].cursor))
       IN  IF loc[t].cursor < NShards
           THEN /\ loc' = [loc EXCEPT ![t].len = n, ![t].cursor = @ + 1]
                /\ pc' = pc
           ELSE /\ loc' = [loc EXCEPT ![t].s_len = n, ![t].len = 0, ![t].cursor = 0]
                /\ pc' = [pc EXCEPT ![t] = "ucs_rate_hits"]
    /\ UNCHANGED <<policy, storage, writer, hits, misses, stats, now,
                   op, result, pre, nGets, nCalls, last, script, answers, handles, via,
                   ended, caches, created, got, out, tables, context, mutex, heap>>

ucs_rate_hits(t) ==
    /\ pc[t] = "ucs_rate_hits"
    /\ loc' = [loc EXCEPT ![t].r_hits = hits]
    /\ pc' = [pc EXCEPT ![t] = "ucs_register"]
    /\ UNCHANGED <<policy, storage, writer, hits, misses, stats, now,
                   op, result, pre, nGets, nCalls, last, script, answers, handles, via,
                   ended, caches, created, got, out, tables, context, mutex, heap>>

CacheStats(t) ==
    [hits |-> loc[t].s_hits, misses |-> loc[t].s_misses, entries |-> loc[t].s_len,
     hit_rate |-> hit_rate(loc[t].r_hits, misses)]

ucs_register(t) ==
    /\ pc[t] = "ucs_register"
    /\ stats' = Put(stats, CacheName(via[t]), CacheStats(t))
    /\ pc' = [pc EXCEPT ![t] = loc[t].cont]
    /\ loc' = [loc EXCEPT ![t].s_hits = 0, ![t].s_misses = 0, ![t].s_len = 0,
                          ![t].r_hits = 0, ![t].cont = "", ![t].published = TRUE]
    /\ UNCHANGED <<policy, storage, writer, hits, misses, now,
                   op, result, pre, nGets, nCalls, last, script, answers, handles, via,
                   ended, caches, created, got, out, tables, context, mutex, heap>>

update_cache_stats(t) ==
    \/ ucs_hit_count(t)
    \/ ucs_miss_count(t)
    \/ ucs_len(t)
    \/ ucs_rate_hits(t)
    \/ ucs_register(t)

(***************************************************************************)
(* Cache::maybe_evict and Cache::evict_lru.  Both callers (get's miss path *)
(* and insert) go on to update_cache_stats and then return.                *)
(***************************************************************************)
AfterEvict(t) == IF op[t] = "get" THEN "get_miss_return" ELSE "insert_return"

\* the sweep that finds nothing expired
me_scan_blind(t) ==
    /\ pc[t] = "me_scan"
    /\ Unlocked(loc[t].cursor)
    /\ IF loc[t].cursor < NShards
       THEN /\ loc' = [loc EXCEPT ![t].cursor = @ + 1,
                                  ![t].swept = IF loc[t].cursor = 1 THEN now ELSE @]
            /\ pc' = pc
       ELSE /\ loc' = [loc EXCEPT ![t].cursor = 0,
                                  ![t].swept = IF loc[t].cursor = 1 THEN now ELSE @]
            /\ pc' = [pc EXCEPT ![t] = "me_remove"]
    /\ UNCHANGED <<policy, storage, writer, hits, misses, stats, now,
                   op, result, pre, nGets, nCalls, last, script, answers, handles, via,
                   ended, caches, created, got, out, tables, context, mutex, heap>>

\* keys_to_remove: the expired entries, collected shard by shard; chk is the
\* time the sweep begins
me_scan(t) ==
    /\ pc[t] = "me_scan"
    /\ Unlocked(loc[t].cursor)
    /\ \E q \in Orderings({k \in ShardKeys(storage, loc[t].cursor) :
                              is_expired(storage[k], now)}) :
          IF loc[t].cursor < NShards
          THEN /\ loc' = [loc EXCEPT ![t].acc = @ \o q, ![t].cursor = @ + 1,
                                     ![t].swept = IF loc[t].cursor = 1 THEN now ELSE @]
               /\ pc' = pc
          ELSE /\ loc' = [loc EXCEPT ![t].acc = @ \o q, ![t].cursor = 0,
                                     ![t].swept = IF loc[t].cursor = 1 THEN now ELSE @]
               /\ pc' = [pc EXCEPT ![t] = "me_remove"]
    /\ UNCHANGED <<policy, storage, writer, hits, misses, stats, now,
                   op, result, pre, nGets, nCalls, last, script, answers, handles, via,
                   ended, caches, created, got, out, tables, context, mutex, heap>>

me_remove(t) ==
    /\ pc[t] = "me_remove"
    /\ loc[t].acc # <<>>
    /\ Unlocked(ShardOf(Head(loc[t].acc)))
    /\ storage' = Remove(storage, Head(loc[t].acc))
    /\ loc' = [loc EXCEPT ![t].acc = Tail(@)]
    /\ UNCHANGED <<policy, writer, hits, misses, stats, now,
                   pc, op, result, pre, nGets, nCalls, last, script, answers, handles, via,
                   ended, caches, created, got, out, tables, context, mutex, heap>>

me_policy(t) ==
    /\ pc[t] = "me_remove"
    /\ loc[t].acc = <<>>
    /\ IF HasLimit
       THEN /\ pc' = [pc EXCEPT ![t] = "me_len"]
            /\ loc' = [loc EXCEPT ![t].cursor = 1, ![t].len = 0]
       ELSE /\ pc' = [pc EXCEPT ![t] = "ucs_hits"]
            /\ loc' = [loc EXCEPT ![t].cont = AfterEvict(t)]
    /\ UNCHANGED <<policy, storage, writer, hits, misses, stats, now,
                   op, result, pre, nGets, nCalls, last, script, answers, handles, via,
                   ended, caches, created, got, out, tables, context, mutex, heap>>

\* if self.storage.len() > *limit
me_len(t) ==
    /\ pc[t] = "me_len"
    /\ Unlocked(loc[t].cursor)
    /\ LET n == loc[t].len + Cardinality(ShardKeys(storage, loc[t].cursor))
       IN  IF loc[t].cursor < NShards
           THEN /\ loc' = [loc EXCEPT ![t].len = n, ![t].cursor = @ + 1]
                /\ pc' = pc
           ELSE IF n > policy.limit[1]
           THEN /\ loc' = [loc EXCEPT ![t].len = 0, ![t].cursor = 1]
                /\ pc' = [pc EXCEPT ![t] = "me_count"]
           ELSE /\ loc' = [loc EXCEPT ![t].len = 0, ![t].cursor = 0,
                                      ![t].cont = AfterEvict(t)]
                /\ pc' = [pc EXCEPT ![t] = "ucs_hits"]
    /\ UNCHANGED <<policy, storage, writer, hits, misses, stats, now,
                   op, result, pre, nGets, nCalls, last, script, answers, handles, via,
                   ended, caches, created, got, out, tables, context, mutex, heap>>

\* the count one short
EvictCount_short(n, limit) == n - limit - 1

EvictCount(n, limit) == n - limit

\* self.evict_lru(self.storage.len() - limit): a second len()
me_count(t) ==
    /\ pc[t] = "me_count"
    /\ Unlocked(loc[t].cursor)
    /\ LET n == loc[t].len + Cardinality(ShardKeys(storage, loc[t].cursor))
       IN  IF loc[t].cursor < NShards
           THEN /\ loc' = [loc EXCEPT ![t].len = n, ![t].cursor = @ + 1]
                /\ pc' = pc
           ELSE /\ n >= policy.limit[1]
                /\ loc' = [loc EXCEPT ![t].len = 0, ![t].cursor = 1, ![t].acc = <<>>,
                                      ![t].count = EvictCount(n, policy.limit[1])]
                /\ pc' = [pc EXCEPT ![t] = "el_scan"]
    /\ UNCHANGED <<policy, storage, writer, hits, misses, stats, now,
                   op, result, pre, nGets, nCalls, last, script, answers, handles, via,
                   ended, caches, created, got, out, tables, context, mutex, heap>>

\* entries: (key, last_accessed, created_at) of every entry, shard by shard
el_scan(t) ==
    /\ pc[t] = "el_scan"
    /\ Unlocked(loc[t].cursor)
    /\ \E q \in Orderings({SnapshotOf(storage, k) :
                              k \in ShardKeys(storage, loc[t].cursor)}) :
          IF loc[t].cursor < NShards
          THEN /\ loc' = [loc EXCEPT ![t].acc = @ \o q, ![t].cursor = @ + 1]
               /\ pc' = pc
          ELSE /\ loc' = [loc EXCEPT ![t].acc = @ \o q, ![t].cursor = 0]
               /\ pc' = [pc EXCEPT ![t] = "el_sort"]
    /\ UNCHANGED <<policy, storage, writer, hits, misses, stats, now,
                   op, result, pre, nGets, nCalls, last, script, answers, handles, via,
                   ended, caches, created, got, out, tables, context, mutex, heap>>

\* at most one victim, whatever the count
Victims_one(entries, count) ==
    LET first == Take(sort_by(entries), IF count > 1 THEN 1 ELSE count)
    IN  [i \in 1..Len(first) |-> first[i].key]

Victims(entries, count) ==
    LET first == Take(sort_by(entries), count)
    IN  [i \in 1..Len(first) |-> first[i].key]

el_sort(t) ==
    /\ pc[t] = "el_sort"
    /\ loc' = [loc EXCEPT ![t].acc = Victims(@, loc[t].count), ![t].count = 0]
    /\ pc' = [pc EXCEPT ![t] = "el_remove"]
    /\ UNCHANGED <<policy, storage, writer, hits, misses, stats, now,
                   op, result, pre, nGets, nCalls, last, script, answers, handles, via,
                   ended, caches, created, got, out, tables, context, mutex, heap>>

el_remove(t) ==
    /\ pc[t] = "el_remove"
    /\ loc[t].acc # <<>>
    /\ Unlocked(ShardOf(Head(loc[t].acc)))
    /\ storage' = Remove(storage, Head(loc[t].acc))
    /\ loc' = [loc EXCEPT ![t].acc = Tail(@)]
    /\ UNCHANGED <<policy, writer, hits, misses, stats, now,
                   pc, op, result, pre, nGets, nCalls, last, script, answers, handles, via,
                   ended, caches, created, got, out, tables, context, mutex, heap>>

el_return(t) ==
    /\ pc[t] = "el_remove"
    /\ loc[t].acc = <<>>
    /\ pc' = [pc EXCEPT ![t] = "ucs_hits"]
    /\ loc' = [loc EXCEPT ![t].cont = AfterEvict(t)]
    /\ UNCHANGED <<policy, storage, writer, hits, misses, stats, now,
                   op, result, pre, nGets, nCalls, last, script, answers, handles, via,
                   ended, caches, created, got, out, tables, context, mutex, heap>>

maybe_evict(t) ==
    \/ me_scan(t)
    \/ me_remove(t)
    \/ me_policy(t)
    \/ me_len(t)
    \/ me_count(t)

evict_lru(t) ==
    \/ el_scan(t)
    \/ el_sort(t)
    \/ el_remove(t)
    \/ el_return(t)

(***************************************************************************)
(* Cache::get.                                                             *)
(***************************************************************************)
\* v: what compute returns when the scenario fixes it, 0 when it is free
get_call(t, k, v) ==
    /\ script.free => nGets < MaxGets
    /\ Begin(t, "get", k, v)
    /\ nGets' = nGets + 1
    /\ pc' = [pc EXCEPT ![t] = "get_lookup"]

\* self.storage.get(key), entry.is_expired() and drop(entry): the Ref's read
\* lock is held over the expiry check only
get_lookup(t) ==
    /\ pc[t] = "get_lookup"
    /\ Unlocked(ShardOf(loc[t].key))
    /\ IF loc[t].key \notin DOMAIN storage
       THEN /\ pc' = [pc EXCEPT ![t] = "get_miss"]
            /\ loc' = [loc EXCEPT ![t].chk = now]
       ELSE /\ loc' = [loc EXCEPT ![t].found = TRUE,
                                  ![t].seen = Some(storage[loc[t].key]),
                                  ![t].expired = is_expired(storage[loc[t].key], now),
                                  ![t].chk = now]
            /\ pc' = [pc EXCEPT ![t] =
                        IF is_expired(storage[loc[t].key], now)
                        THEN "get_remove" ELSE "get_get_mut"]
    /\ UNCHANGED <<policy, storage, writer, hits, misses, stats, now,
                   op, result, pre, nGets, nCalls, last, script, answers, handles, via,
                   ended, caches, created, got, out, tables, context, mutex, heap>>

\* self.storage.get_mut(key): the RefMut keeps the shard's write lock
get_get_mut(t) ==
    /\ pc[t] = "get_get_mut"
    /\ Unlocked(ShardOf(loc[t].key))
    /\ IF loc[t].key \in DOMAIN storage
       THEN /\ writer' = [writer EXCEPT ![ShardOf(loc[t].key)] = t]
            /\ pc' = [pc EXCEPT ![t] = "get_touch"]
       ELSE /\ writer' = writer
            /\ pc' = [pc EXCEPT ![t] = "get_miss"]
    /\ UNCHANGED <<policy, storage, hits, misses, stats, now,
                   op, loc, result, pre, nGets, nCalls, last, script, answers, handles, via,
                   ended, caches, created, got, out, tables, context, mutex, heap>>

get_touch(t) ==
    /\ pc[t] = "get_touch"
    /\ storage' = [storage EXCEPT ![loc[t].key] = touch(@, now)]
    /\ pc' = [pc EXCEPT ![t] = "get_hit_count"]
    /\ UNCHANGED <<policy, writer, hits, misses, stats, now,
                   op, loc, result, pre, nGets, nCalls, last, script, answers, handles, via,
                   ended, caches, created, got, out, tables, context, mutex, heap>>

get_hit_count(t) ==
    /\ pc[t] = "get_hit_count"
    /\ hits' = hits + 1
    /\ loc' = [loc EXCEPT ![t].cont = "get_hit_return"]
    /\ pc' = [pc EXCEPT ![t] = "ucs_hits"]
    /\ UNCHANGED <<policy, storage, writer, misses, stats, now,
                   op, result, pre, nGets, nCalls, last, script, answers, handles, via,
                   ended, caches, created, got, out, tables, context, mutex, heap>>

\* return entry_mut.value.clone(), which drops the RefMut
get_hit_return(t) ==
    /\ pc[t] = "get_hit_return"
    /\ result' = [result EXCEPT ![t] = Some(storage[loc[t].key].value)]
    /\ writer' = [writer EXCEPT ![ShardOf(loc[t].key)] = 0]
    /\ pc' = [pc EXCEPT ![t] = "done"]
    /\ UNCHANGED <<policy, storage, hits, misses, stats, now,
                   op, loc, pre, nGets, nCalls, last, script, answers, handles, via,
                   ended, caches, created, got, out, tables, context, mutex, heap>>

\* the expired branch counting a hit
get_remove_counted(t) ==
    /\ pc[t] = "get_remove"
    /\ Unlocked(ShardOf(loc[t].key))
    /\ storage' = Remove(storage, loc[t].key)
    /\ hits' = hits + 1
    /\ loc' = [loc EXCEPT ![t].cont = "get_miss", ![t].removed = TRUE]
    /\ pc' = [pc EXCEPT ![t] = "ucs_hits"]
    /\ UNCHANGED <<policy, writer, misses, stats, now,
                   op, result, pre, nGets, nCalls, last, script, answers, handles, via,
                   ended, caches, created, got, out, tables, context, mutex, heap>>

\* the expired branch: self.storage.remove(key); self.update_cache_stats()
get_remove(t) ==
    /\ pc[t] = "get_remove"
    /\ Unlocked(ShardOf(loc[t].key))
    /\ storage' = Remove(storage, loc[t].key)
    /\ loc' = [loc EXCEPT ![t].cont = "get_miss", ![t].removed = TRUE]
    /\ pc' = [pc EXCEPT ![t] = "ucs_hits"]
    /\ UNCHANGED <<policy, writer, hits, misses, stats, now,
                   op, result, pre, nGets, nCalls, last, script, answers, handles, via,
                   ended, caches, created, got, out, tables, context, mutex, heap>>

\* the increment as a load and a store
get_miss_racy(t) ==
    /\ pc[t] = "get_miss"
    /\ IF loc[t].len = 0
       THEN /\ loc' = [loc EXCEPT ![t].count = misses, ![t].len = 1]
            /\ misses' = misses
            /\ pc' = pc
       ELSE /\ loc' = [loc EXCEPT ![t].count = 0, ![t].len = 0]
            /\ misses' = loc[t].count + 1
            /\ pc' = [pc EXCEPT ![t] = "get_compute"]
    /\ UNCHANGED <<policy, storage, writer, hits, stats, now,
                   op, result, pre, nGets, nCalls, last, script, answers, handles, via,
                   ended, caches, created, got, out, tables, context, mutex, heap>>

get_miss(t) ==
    /\ pc[t] = "get_miss"
    /\ misses' = misses + 1
    /\ pc' = [pc EXCEPT ![t] = "get_compute"]
    /\ UNCHANGED <<policy, storage, writer, hits, stats, now,
                   op, loc, result, pre, nGets, nCalls, last, script, answers, handles, via,
                   ended, caches, created, got, out, tables, context, mutex, heap>>

\* let value = compute()
get_compute(t) ==
    /\ pc[t] = "get_compute"
    /\ \E v \in (IF loc[t].arg = 0 THEN Values ELSE {loc[t].arg}) :
          loc' = [loc EXCEPT ![t].val = v, ![t].calls = @ + 1]
    /\ pc' = [pc EXCEPT ![t] = "get_new"]
    /\ UNCHANGED <<policy, storage, writer, hits, misses, stats, now,
                   op, result, pre, nGets, nCalls, last, script, answers, handles, via,
                   ended, caches, created, got, out, tables, context, mutex, heap>>

\* compute fails and get goes on with a value of its own
get_compute_swallow(t) ==
    /\ pc[t] = "get_compute"
    /\ script.free
    /\ loc' = [loc EXCEPT ![t].val = 1, ![t].calls = @ + 1, ![t].failed = TRUE]
    /\ pc' = [pc EXCEPT ![t] = "get_new"]
    /\ UNCHANGED <<policy, storage, writer, hits, misses, stats, now,
                   op, result, pre, nGets, nCalls, last, script, answers, handles, via,
                   ended, caches, created, got, out, tables, context, mutex, heap>>

\* compute() panics: the panic unwinds through get, which holds no lock and
\* has no cleanup of its own, to the caller
get_compute_panic(t) ==
    /\ pc[t] = "get_compute"
    /\ script.free
    /\ loc' = [loc EXCEPT ![t].calls = @ + 1, ![t].failed = TRUE]
    /\ pc' = [pc EXCEPT ![t] = "panicked"]
    /\ UNCHANGED <<policy, storage, writer, hits, misses, stats, now,
                   op, result, pre, nGets, nCalls, last, script, answers, handles, via,
                   ended, caches, created, got, out, tables, context, mutex, heap>>

get_new(t) ==
    /\ pc[t] = "get_new"
    /\ loc' = [loc EXCEPT ![t].ent =
                  Some(CacheEntry_new(loc[t].val, PolicyTtl(policy)[1],
                                      PolicyTtl(policy)[2], now))]
    /\ pc' = [pc EXCEPT ![t] = "get_store"]
    /\ UNCHANGED <<policy, storage, writer, hits, misses, stats, now,
                   op, result, pre, nGets, nCalls, last, script, answers, handles, via,
                   ended, caches, created, got, out, tables, context, mutex, heap>>

get_store(t) ==
    /\ pc[t] = "get_store"
    /\ Unlocked(ShardOf(loc[t].key))
    /\ storage' = Put(storage, loc[t].key, loc[t].ent[1])
    /\ loc' = [loc EXCEPT ![t].cursor = 1, ![t].acc = <<>>]
    /\ pc' = [pc EXCEPT ![t] = "me_scan"]
    /\ UNCHANGED <<policy, writer, hits, misses, stats, now,
                   op, result, pre, nGets, nCalls, last, script, answers, handles, via,
                   ended, caches, created, got, out, tables, context, mutex, heap>>

get_miss_return(t) ==
    /\ pc[t] = "get_miss_return"
    /\ result' = [result EXCEPT ![t] = Some(loc[t].val)]
    /\ pc' = [pc EXCEPT ![t] = "done"]
    /\ UNCHANGED <<policy, storage, writer, hits, misses, stats, now,
                   op, loc, pre, nGets, nCalls, last, script, answers, handles, via,
                   ended, caches, created, got, out, tables, context, mutex, heap>>

get(t) ==
    \/ \E k \in Keys : get_call(t, k, 0)
    \/ get_lookup(t)
    \/ get_get_mut(t)
    \/ get_touch(t)
    \/ get_hit_count(t)
    \/ get_remove(t)
    \/ get_miss(t)
    \/ get_compute(t)
    \/ get_compute_panic(t)
    \/ get_new(t)
    \/ get_store(t)
    \/ get_miss_return(t)

(***************************************************************************)
(* Cache::get_if_cached.                                                   *)
(***************************************************************************)
gic_call(t, k) ==
    /\ Begin(t, "get_if_cached", k, 0)
    /\ pc' = [pc EXCEPT ![t] = "gic_get_mut"]
    /\ nGets' = nGets

gic_get_mut(t) ==
    /\ pc[t] = "gic_get_mut"
    /\ Unlocked(ShardOf(loc[t].key))
    /\ IF loc[t].key \in DOMAIN storage
       THEN /\ writer' = [writer EXCEPT ![ShardOf(loc[t].key)] = t]
            /\ pc' = [pc EXCEPT ![t] = "gic_check"]
       ELSE /\ writer' = writer
            /\ pc' = [pc EXCEPT ![t] = "gic_none"]
    /\ UNCHANGED <<policy, storage, hits, misses, stats, now,
                   op, loc, result, pre, nGets, nCalls, last, script, answers, handles, via,
                   ended, caches, created, got, out, tables, context, mutex, heap>>

\* if !entry.is_expired() ... else { drop(entry); ...
gic_check(t) ==
    /\ pc[t] = "gic_check"
    /\ loc' = [loc EXCEPT ![t].found = TRUE,
                          ![t].seen = Some(storage[loc[t].key]),
                          ![t].expired = is_expired(storage[loc[t].key], now),
                          ![t].chk = now]
    /\ IF is_expired(storage[loc[t].key], now)
       THEN /\ writer' = [writer EXCEPT ![ShardOf(loc[t].key)] = 0]
            /\ pc' = [pc EXCEPT ![t] = "gic_remove"]
       ELSE /\ writer' = writer
            /\ pc' = [pc EXCEPT ![t] = "gic_touch"]
    /\ UNCHANGED <<policy, storage, hits, misses, stats, now,
                   op, result, pre, nGets, nCalls, last, script, answers, handles, via,
                   ended, caches, created, got, out, tables, context, mutex, heap>>

gic_touch(t) ==
    /\ pc[t] = "gic_touch"
    /\ storage' = [storage EXCEPT ![loc[t].key] = touch(@, now)]
    /\ pc' = [pc EXCEPT ![t] = "gic_hit_count"]
    /\ UNCHANGED <<policy, writer, hits, misses, stats, now,
                   op, loc, result, pre, nGets, nCalls, last, script, answers, handles, via,
                   ended, caches, created, got, out, tables, context, mutex, heap>>

gic_hit_count(t) ==
    /\ pc[t] = "gic_hit_count"
    /\ hits' = hits + 1
    /\ loc' = [loc EXCEPT ![t].cont = "gic_hit_return"]
    /\ pc' = [pc EXCEPT ![t] = "ucs_hits"]
    /\ UNCHANGED <<policy, storage, writer, misses, stats, now,
                   op, result, pre, nGets, nCalls, last, script, answers, handles, via,
                   ended, caches, created, got, out, tables, context, mutex, heap>>

\* return Some(entry.value.clone()), which drops the RefMut
gic_hit_return(t) ==
    /\ pc[t] = "gic_hit_return"
    /\ result' = [result EXCEPT ![t] = Some(storage[loc[t].key].value)]
    /\ writer' = [writer EXCEPT ![ShardOf(loc[t].key)] = 0]
    /\ pc' = [pc EXCEPT ![t] = "done"]
    /\ UNCHANGED <<policy, storage, hits, misses, stats, now,
                   op, loc, pre, nGets, nCalls, last, script, answers, handles, via,
                   ended, caches, created, got, out, tables, context, mutex, heap>>

gic_remove(t) ==
    /\ pc[t] = "gic_remove"
    /\ Unlocked(ShardOf(loc[t].key))
    /\ storage' = Remove(storage, loc[t].key)
    /\ loc' = [loc EXCEPT ![t].cont = "gic_none", ![t].removed = TRUE]
    /\ pc' = [pc EXCEPT ![t] = "ucs_hits"]
    /\ UNCHANGED <<policy, writer, hits, misses, stats, now,
                   op, result, pre, nGets, nCalls, last, script, answers, handles, via,
                   ended, caches, created, got, out, tables, context, mutex, heap>>

\* the empty answer counted as a miss
gic_none_miss(t) ==
    /\ pc[t] = "gic_none"
    /\ result' = [result EXCEPT ![t] = None]
    /\ misses' = misses + 1
    /\ pc' = [pc EXCEPT ![t] = "done"]
    /\ UNCHANGED <<policy, storage, writer, hits, stats, now,
                   op, loc, pre, nGets, nCalls, last, script, answers, handles, via,
                   ended, caches, created, got, out, tables, context, mutex, heap>>

gic_none(t) ==
    /\ pc[t] = "gic_none"
    /\ result' = [result EXCEPT ![t] = None]
    /\ pc' = [pc EXCEPT ![t] = "done"]
    /\ UNCHANGED <<policy, storage, writer, hits, misses, stats, now,
                   op, loc, pre, nGets, nCalls, last, script, answers, handles, via,
                   ended, caches, created, got, out, tables, context, mutex, heap>>

get_if_cached(t) ==
    \/ \E k \in Keys : gic_call(t, k)
    \/ gic_get_mut(t)
    \/ gic_check(t)
    \/ gic_touch(t)
    \/ gic_hit_count(t)
    \/ gic_remove(t)
    \/ gic_none(t)

(***************************************************************************)
(* Cache::insert.                                                          *)
(***************************************************************************)
insert_call(t, k, v) ==
    /\ Begin(t, "insert", k, v)
    /\ pc' = [pc EXCEPT ![t] = "insert_new"]
    /\ nGets' = nGets

insert_new(t) ==
    /\ pc[t] = "insert_new"
    /\ loc' = [loc EXCEPT ![t].ent =
                  Some(CacheEntry_new(loc[t].arg, PolicyTtl(policy)[1],
                                      PolicyTtl(policy)[2], now))]
    /\ pc' = [pc EXCEPT ![t] = "insert_store"]
    /\ UNCHANGED <<policy, storage, writer, hits, misses, stats, now,
                   op, result, pre, nGets, nCalls, last, script, answers, handles, via,
                   ended, caches, created, got, out, tables, context, mutex, heap>>

\* the store that keeps an entry the key already has
insert_store_keep(t) ==
    /\ pc[t] = "insert_store"
    /\ Unlocked(ShardOf(loc[t].key))
    /\ storage' = IF loc[t].key \in DOMAIN storage THEN storage
                  ELSE Put(storage, loc[t].key, loc[t].ent[1])
    /\ loc' = [loc EXCEPT ![t].cursor = 1, ![t].acc = <<>>]
    /\ pc' = [pc EXCEPT ![t] = "me_scan"]
    /\ UNCHANGED <<policy, writer, hits, misses, stats, now,
                   op, result, pre, nGets, nCalls, last, script, answers, handles, via,
                   ended, caches, created, got, out, tables, context, mutex, heap>>

insert_store(t) ==
    /\ pc[t] = "insert_store"
    /\ Unlocked(ShardOf(loc[t].key))
    /\ storage' = Put(storage, loc[t].key, loc[t].ent[1])
    /\ loc' = [loc EXCEPT ![t].cursor = 1, ![t].acc = <<>>]
    /\ pc' = [pc EXCEPT ![t] = "me_scan"]
    /\ UNCHANGED <<policy, writer, hits, misses, stats, now,
                   op, result, pre, nGets, nCalls, last, script, answers, handles, via,
                   ended, caches, created, got, out, tables, context, mutex, heap>>

insert_return(t) ==
    /\ pc[t] = "insert_return"
    /\ pc' = [pc EXCEPT ![t] = "done"]
    /\ UNCHANGED <<policy, storage, writer, hits, misses, stats, now,
                   op, loc, result, pre, nGets, nCalls, last, script, answers, handles, via,
                   ended, caches, created, got, out, tables, context, mutex, heap>>

insert(t) ==
    \/ \E k \in Keys, v \in Values : insert_call(t, k, v)
    \/ insert_new(t)
    \/ insert_store(t)
    \/ insert_return(t)

(***************************************************************************)
(* Cache::invalidate.                                                      *)
(***************************************************************************)
invalidate_call(t, k) ==
    /\ Begin(t, "invalidate", k, 0)
    /\ pc' = [pc EXCEPT ![t] = "invalidate_remove"]
    /\ nGets' = nGets

\* let removed = self.storage.remove(key).is_some(); if removed { publish }
invalidate_remove(t) ==
    /\ pc[t] = "invalidate_remove"
    /\ Unlocked(ShardOf(loc[t].key))
    /\ storage' = Remove(storage, loc[t].key)
    /\ IF loc[t].key \in DOMAIN storage
       THEN /\ loc' = [loc EXCEPT ![t].found = TRUE, ![t].cont = "invalidate_return"]
            /\ pc' = [pc EXCEPT ![t] = "ucs_hits"]
       ELSE /\ loc' = [loc EXCEPT ![t].found = FALSE]
            /\ pc' = [pc EXCEPT ![t] = "invalidate_return"]
    /\ UNCHANGED <<policy, writer, hits, misses, stats, now,
                   op, result, pre, nGets, nCalls, last, script, answers, handles, via,
                   ended, caches, created, got, out, tables, context, mutex, heap>>

\* the answer true whether or not an entry was removed
invalidate_return_true(t) ==
    /\ pc[t] = "invalidate_return"
    /\ result' = [result EXCEPT ![t] = Some(TRUE)]
    /\ pc' = [pc EXCEPT ![t] = "done"]
    /\ UNCHANGED <<policy, storage, writer, hits, misses, stats, now,
                   op, loc, pre, nGets, nCalls, last, script, answers, handles, via,
                   ended, caches, created, got, out, tables, context, mutex, heap>>

invalidate_return(t) ==
    /\ pc[t] = "invalidate_return"
    /\ result' = [result EXCEPT ![t] = Some(loc[t].found)]
    /\ pc' = [pc EXCEPT ![t] = "done"]
    /\ UNCHANGED <<policy, storage, writer, hits, misses, stats, now,
                   op, loc, pre, nGets, nCalls, last, script, answers, handles, via,
                   ended, caches, created, got, out, tables, context, mutex, heap>>

invalidate(t) ==
    \/ \E k \in Keys : invalidate_call(t, k)
    \/ invalidate_remove(t)
    \/ invalidate_return(t)

(***************************************************************************)
(* Cache::clear: DashMap::clear empties one shard after the other.         *)
(***************************************************************************)
clear_call(t) ==
    /\ Begin(t, "clear", 0, 0)
    /\ pc' = [pc EXCEPT ![t] = "clear_shard"]
    /\ nGets' = nGets

clear_shard(t) ==
    /\ pc[t] = "clear_shard"
    /\ Unlocked(loc[t].cursor)
    /\ storage' = RemoveShard(storage, loc[t].cursor)
    /\ IF loc[t].cursor < NShards
       THEN /\ loc' = [loc EXCEPT ![t].cursor = @ + 1]
            /\ pc' = pc
       ELSE /\ loc' = [loc EXCEPT ![t].cursor = 0, ![t].cont = "clear_return"]
            /\ pc' = [pc EXCEPT ![t] = "ucs_hits"]
    /\ UNCHANGED <<policy, writer, hits, misses, stats, now,
                   op, result, pre, nGets, nCalls, last, script, answers, handles, via,
                   ended, caches, created, got, out, tables, context, mutex, heap>>

clear_return(t) ==
    /\ pc[t] = "clear_return"
    /\ pc' = [pc EXCEPT ![t] = "done"]
    /\ UNCHANGED <<policy, storage, writer, hits, misses, stats, now,
                   op, loc, result, pre, nGets, nCalls, last, script, answers, handles, via,
                   ended, caches, created, got, out, tables, context, mutex, heap>>

clear(t) ==
    \/ clear_call(t)
    \/ clear_shard(t)
    \/ clear_return(t)

(***************************************************************************)
(* The call has returned: the caller has its result and may call again.    *)
(***************************************************************************)
\* the call of thread t has counted a hit (a miss) and is returning
WasHit(t) ==
    \/ op[t] = "get" /\ loc[t].calls = 0
    \/ op[t] = "get_if_cached" /\ result[t] # None

WasMiss(t) == op[t] = "get" /\ loc[t].calls > 0

Return(t) ==
    /\ pc[t] = "done"
    /\ last' = [last EXCEPT ![t] = [name |-> op[t], key |-> loc[t].key, ret |-> result[t]]]
    /\ answers' = IF script.free THEN answers ELSE Append(answers, result[t])
    /\ op' = [op EXCEPT ![t] = "none"]
    /\ loc' = [loc EXCEPT ![t] = Loc0]
    /\ pre' = [pre EXCEPT ![t] = Pre0]
    /\ result' = [result EXCEPT ![t] = None]
    /\ pc' = [pc EXCEPT ![t] = "idle"]
    /\ via' = [via EXCEPT ![t] = 0]
    /\ ended' = [hits |-> ended.hits + (IF WasHit(t) THEN 1 ELSE 0),
                 misses |-> ended.misses + (IF WasMiss(t) THEN 1 ELSE 0),
                 computes |-> ended.computes + loc[t].calls]
    /\ UNCHANGED <<policy, storage, writer, hits, misses, stats, now, nGets, nCalls, script, handles,
                   caches, created, got, out, tables, context, mutex, heap>>

Step(t) ==
    \/ get(t)
    \/ get_if_cached(t)
    \/ insert(t)
    \/ invalidate(t)
    \/ clear(t)
    \/ maybe_evict(t)
    \/ evict_lru(t)
    \/ update_cache_stats(t)
    \/ Return(t)

(***************************************************************************)
(* Spec: one thread calls the cache, a single-threaded sequence of calls.  *)
(***************************************************************************)
Next == Tick \/ Step(1)

Spec == Init /\ [][Next]_vars

(***************************************************************************)
(* SpecConc: the threads call the cache concurrently, MaxCalls calls in    *)
(* all.  Between maybe_evict's two len() calls another thread may shrink   *)
(* the table below the limit; then the usize subtraction overflows: a      *)
(* build with overflow checks panics, one without wraps around to a count  *)
(* no table reaches (its stand-in here: the number of keys).               *)
(***************************************************************************)
me_count_overflow(t) ==
    /\ pc[t] = "me_count"
    /\ loc[t].cursor = NShards
    /\ Unlocked(loc[t].cursor)
    /\ loc[t].len + Cardinality(ShardKeys(storage, loc[t].cursor)) < policy.limit[1]
    /\ \E checked \in BOOLEAN :
          IF checked
          THEN /\ pc' = [pc EXCEPT ![t] = "panicked"]
               /\ loc' = [loc EXCEPT ![t].len = 0, ![t].cursor = 0]
          ELSE /\ pc' = [pc EXCEPT ![t] = "el_scan"]
               /\ loc' = [loc EXCEPT ![t].len = 0, ![t].cursor = 1, ![t].acc = <<>>,
                                     ![t].count = MaxKey]
    /\ UNCHANGED <<policy, storage, writer, hits, misses, stats, now,
                   op, result, pre, nGets, nCalls, last, script, answers, handles, via,
                   ended, caches, created, got, out, tables, context, mutex, heap>>

NextConc ==
    \/ Tick
    \/ \E t \in Threads :
          /\ pc[t] = "idle" => nCalls < MaxCalls
          /\ Step(t) \/ me_count_overflow(t)

SpecConc == Init /\ [][NextConc]_vars

(***************************************************************************)
(* SpecClone: one thread clones the handle and makes its calls through the *)
(* handle and its clones.  len(), hit_count() and miss_count() read what   *)
(* the Arcs of the handle they are called on point to.                     *)
(***************************************************************************)
\* a clone with a copy of the table instead of a pointer to it
clone_snapshot(h) ==
    [storage |-> "copy", policy |-> h.policy, hits |-> h.hits, misses |-> h.misses]

clone(h) ==
    [storage |-> h.storage, policy |-> h.policy, hits |-> h.hits, misses |-> h.misses]

clone_call(t) ==
    /\ pc[t] = "idle"
    /\ script.free
    /\ Len(handles) < MaxHandles
    /\ \E h \in 1..Len(handles) : handles' = Append(handles, clone(handles[h]))
    /\ UNCHANGED <<policy, storage, writer, hits, misses, stats, now,
                   pc, op, loc, result, pre, nGets, nCalls, last, script, answers, via,
                   ended, caches, created, got, out, tables, context, mutex, heap>>

Deref(arc) ==
    CASE arc = "storage" -> storage
      [] arc = "hits" -> hits
      [] arc = "misses" -> misses

len(h) == Cardinality(DOMAIN Deref(h.storage))
hit_count(h) == Deref(h.hits)
miss_count(h) == Deref(h.misses)

NextClone == Tick \/ Step(1) \/ clone_call(1)

SpecClone == Init /\ [][NextClone]_vars

(***************************************************************************)
(* SpecCapConc: the threads call get and insert concurrently on a cache    *)
(* built with a policy that has a limit; nobody calls clear.               *)
(***************************************************************************)
StepCap(t) ==
    \/ get(t)
    \/ insert(t)
    \/ maybe_evict(t)
    \/ me_count_overflow(t)
    \/ evict_lru(t)
    \/ update_cache_stats(t)
    \/ Return(t)

InitCap == \E p \in {q \in Policies : q.kind \in {"Lru", "LruTtl"}} : InitCache(p, Free)

NextCapConc ==
    \/ Tick
    \/ \E t \in Threads :
          /\ pc[t] = "idle" => nCalls < MaxCalls
          /\ StepCap(t)

SpecCapConc == InitCap /\ [][NextCapConc]_vars

(***************************************************************************)
(* SpecCountConc: the threads make MaxCalls calls of any kind concurrently *)
(* on a cache without a policy, where nothing expires and nothing is       *)
(* evicted: what is left is the counting of hits and misses.               *)
(***************************************************************************)
get_call_any(t, k) ==
    /\ Begin(t, "get", k, 0)
    /\ nGets' = nGets
    /\ pc' = [pc EXCEPT ![t] = "get_lookup"]

StepCount(t) ==
    \/ \E k \in Keys : get_call_any(t, k)
    \/ get_lookup(t)
    \/ get_get_mut(t)
    \/ get_touch(t)
    \/ get_hit_count(t)
    \/ get_miss(t)
    \/ get_compute(t)
    \/ get_compute_panic(t)
    \/ get_new(t)
    \/ get_store(t)
    \/ get_miss_return(t)
    \/ \E k \in Keys : gic_call(t, k)
    \/ gic_get_mut(t)
    \/ gic_check(t)
    \/ gic_touch(t)
    \/ gic_hit_count(t)
    \/ gic_none(t)
    \/ insert(t)
    \/ invalidate(t)
    \/ clear(t)
    \/ me_scan(t)
    \/ me_policy(t)
    \/ update_cache_stats(t)
    \/ Return(t)

InitCount == \E p \in {q \in Policies : q.kind = "None"} : InitCache(p, Free)

NextCountConc ==
    \/ Tick
    \/ \E t \in Threads :
          /\ pc[t] = "idle" => nCalls < MaxCalls
          /\ StepCount(t)

SpecCountConc == InitCount /\ [][NextCountConc]_vars

(***************************************************************************)
(* SpecStats: the stats collector (GlobalStats, a Mutex<HashMap> from name *)
(* to snapshot) is called with names and snapshots of any content, each    *)
(* call atomic under the Mutex; Cache::hit_rate and CacheContext::stats    *)
(* are applied to counters of any value.  out holds the last call and what *)
(* it returned.  The name field of a snapshot, which nothing reads, is     *)
(* left out.                                                               *)
(***************************************************************************)
Names == 1..MaxHandles
Counts == 0..MaxCount

Snapshots ==
    {[hits |-> h, misses |-> m, entries |-> n, hit_rate |-> hit_rate(h, m)] :
        h \in Counts, m \in Counts, n \in Counts}

Done(name, n, arg, ret) ==
    Some([op |-> name, name |-> n, arg |-> arg, before |-> stats, ret |-> ret])

\* global_stats.insert(name, stats) only where the name has no snapshot yet
GlobalStats_register_keep(n, st) ==
    /\ stats' = IF n \in DOMAIN stats THEN stats ELSE Put(stats, n, st)
    /\ out' = Done("register", n, Some(st), None)

GlobalStats_register(n, st) ==
    /\ stats' = Put(stats, n, st)
    /\ out' = Done("register", n, Some(st), None)

GlobalStats_update(n, st) ==
    /\ stats' = Put(stats, n, st)
    /\ out' = Done("update", n, Some(st), None)

GlobalStats_get(n) ==
    /\ stats' = stats
    /\ out' = Done("get", n, None, IF n \in DOMAIN stats THEN Some(stats[n]) ELSE None)

RECURSIVE Total(_, _, _)
Total(m, S, field) ==
    IF S = {} THEN 0
    ELSE LET n == CHOOSE x \in S : TRUE
         IN  m[n][field] + Total(m, S \ {n}, field)

aggregate(m) ==
    LET total_hits == Total(m, DOMAIN m, "hits")
        total_misses == Total(m, DOMAIN m, "misses")
        total_entries == Total(m, DOMAIN m, "entries")
        total_requests == total_hits + total_misses
    IN  [hits |-> total_hits, misses |-> total_misses, entries |-> total_entries,
         hit_rate |-> IF total_requests > 0 THEN <<total_hits, total_requests>>
                      ELSE <<0, 1>>]

GlobalStats_aggregate ==
    /\ stats' = stats
    /\ out' = Done("aggregate", 0, None, Some(aggregate(stats)))

GlobalStats_clear ==
    /\ stats' = EmptyMap
    /\ out' = Done("clear", 0, None, None)

GlobalStats_remove(n) ==
    /\ stats' = Remove(stats, n)
    /\ out' = Done("remove", n, None, IF n \in DOMAIN stats THEN Some(stats[n]) ELSE None)

\* cs: the caches of the context, name -> (hit_count(), miss_count(), len())
CacheContext_stats(cs) ==
    LET total_hits == Total(cs, DOMAIN cs, "hits")
        total_misses == Total(cs, DOMAIN cs, "misses")
        total_entries == Total(cs, DOMAIN cs, "entries")
    IN  [hits |-> total_hits, misses |-> total_misses, entries |-> total_entries,
         hit_rate |-> IF total_hits + total_misses > 0
                      THEN <<total_hits, total_hits + total_misses>>
                      ELSE <<0, 1>>]

ContextCaches ==
    UNION {[D -> {[hits |-> h, misses |-> m, entries |-> 0] : h \in Counts, m \in Counts}] :
              D \in SUBSET Names}

context_stats_call ==
    /\ stats' = stats
    /\ \E cs \in ContextCaches :
          out' = Some([op |-> "context_stats", name |-> 0, arg |-> Some(cs),
                       before |-> stats, ret |-> Some(CacheContext_stats(cs))])

hit_rate_call ==
    /\ stats' = stats
    /\ \E h \in Counts, m \in Counts :
          out' = Some([op |-> "hit_rate", name |-> 0, arg |-> Some(<<h, m>>),
                       before |-> stats, ret |-> Some(hit_rate(h, m))])

NextStats ==
    /\ \/ \E n \in Names, st \in Snapshots : GlobalStats_register(n, st)
       \/ \E n \in Names, st \in Snapshots : GlobalStats_update(n, st)
       \/ \E n \in Names : GlobalStats_get(n)
       \/ GlobalStats_aggregate
       \/ GlobalStats_clear
       \/ \E n \in Names : GlobalStats_remove(n)
       \/ context_stats_call
       \/ hit_rate_call
    /\ UNCHANGED <<policy, storage, writer, hits, misses, now,
                   pc, op, loc, result, pre, nGets, nCalls, last, script, answers,
                   handles, via, ended, caches, created, got, tables, context, mutex, heap>>

InitStats == \E p \in {q \in Policies : q.kind = "None"} : InitCache(p, Free)

SpecStats == InitStats /\ [][NextStats]_vars

(***************************************************************************)
(* SpecRegistry: the threads call get_or_create_cache concurrently,        *)
(* MaxCalls calls in all, with namespaces and policies of any content.     *)
(* Strings are sequences of pieces: a namespace is a sequence of           *)
(* characters, ':' among them, and the formatted policy is a sequence of   *)
(* its literal parts and its numbers in decimal.  entry(cache_key)         *)
(* .or_insert_with(..) holds the shard of the key locked from the lookup   *)
(* to the insertion: one step.  A cache is known by the allocations its    *)
(* three Arcs point to, numbered in the order of creation.                 *)
(***************************************************************************)
Chars == {"a", ":"}

Namespaces == UNION {[1..n -> Chars] : n \in 0..MaxNsLen}

\* {} of an integer, {:?} of a Duration of whole seconds
Display(n) == <<"0", "1", "2", "3", "4", "5", "6", "7", "8", "9">>[n + 1]
Debug(d) == Display(d) \o "s"

policy_key(p) ==
    CASE p.kind = "None" -> <<"none">>
      [] p.kind = "Lru" -> <<"lru(", Display(p.limit[1]), ")">>
      [] p.kind = "Ttl" -> <<"ttl(", Debug(p.duration[1]), ",", p.ttl_type[1], ")">>
      [] p.kind = "LruTtl" ->
            <<"lru_ttl(", Display(p.limit[1]), ", ", Debug(p.duration[1]), ",",
              p.ttl_type[1], ")">>

\* the key without the policy
cache_key_of_namespace(namespace, p) == namespace \o <<":", ":">>

cache_key(namespace, p) == namespace \o <<":", ":">> \o policy_key(p)

\* Cache::with_policy(policy), its Arcs pointing to the allocations numbered n
NewCache(p, n) == [with_policy(p) EXCEPT !.storage = n, !.hits = n, !.misses = n]

get_or_create_cache(t, namespace, p) ==
    LET key == cache_key(namespace, p)
        found == key \in DOMAIN caches
        entry == IF found THEN caches[key] ELSE NewCache(p, Len(created) + 1)
    IN  /\ caches' = IF found THEN caches ELSE Put(caches, key, entry)
        /\ created' = IF found THEN created
                      ELSE Append(created, [namespace |-> namespace, policy |-> p])
        /\ got' = [got EXCEPT ![t] =
                      @ \o <<[namespace |-> namespace, policy |-> p, cache |-> clone(entry)]>>]
        /\ nCalls' = nCalls + 1

NextRegistry ==
    /\ nCalls < MaxCalls
    /\ \E t \in Threads, namespace \in Namespaces, p \in Policies :
          get_or_create_cache(t, namespace, p)
    /\ UNCHANGED <<policy, storage, writer, hits, misses, stats, now,
                   pc, op, loc, result, pre, nGets, last, script, answers,
                   handles, via, ended, out, tables, context, mutex, heap>>

InitRegistry == \E p \in {q \in Policies : q.kind = "None"} : InitCache(p, Free)

SpecRegistry == InitRegistry /\ [][NextRegistry]_vars

(***************************************************************************)
(* SpecNamespace: one thread calls cache_get, cache_invalidate and         *)
(* cache_clear_namespace with namespaces and keys of any content,          *)
(* MaxCalls calls in all.  Of a cache of the registry only the keys it     *)
(* holds are kept.                                                         *)
(***************************************************************************)
starts_with(cs, prefix) ==
    /\ Len(prefix) <= Len(cs)
    /\ \A i \in 1..Len(prefix) : cs[i] = prefix[i]

\* the keys of the cache whose storage is allocation n
KeysOf(tb, n) == IF n \in DOMAIN tb THEN tb[n] ELSE {}

NoPolicy == EvictionPolicy("None", None, None, None)

\* cache_get(namespace, key, compute) of a key the cache does not hold: the
\* get misses and stores the value (a hit does not return)
cache_get(t, namespace, k) ==
    LET n == IF cache_key(namespace, NoPolicy) \in DOMAIN caches
             THEN caches[cache_key(namespace, NoPolicy)].storage
             ELSE Len(created) + 1
    IN  /\ k \notin KeysOf(tables, n)
        /\ get_or_create_cache(t, namespace, NoPolicy)
        /\ tables' = Put(tables, n, KeysOf(tables, n) \cup {k})
        /\ out' = Some([op |-> "cache_get", name |-> namespace, arg |-> Some(k),
                        before |-> tables, ret |-> None])

\* the caches the loop of cache_invalidate and cache_clear_namespace acts on
Matching(namespace) ==
    {caches[ck].storage : ck \in {x \in DOMAIN caches : starts_with(x, namespace)}}

cache_invalidate(namespace, k) ==
    /\ tables' = [n \in DOMAIN tables |->
                     IF n \in Matching(namespace) THEN tables[n] \ {k} ELSE tables[n]]
    /\ out' = Some([op |-> "cache_invalidate", name |-> namespace, arg |-> Some(k),
                    before |-> tables,
                    ret |-> Some(\E n \in Matching(namespace) : k \in KeysOf(tables, n))])
    /\ nCalls' = nCalls + 1
    /\ UNCHANGED <<caches, created, got, context, mutex, heap>>

cache_clear_namespace(namespace) ==
    /\ tables' = [n \in DOMAIN tables |->
                     IF n \in Matching(namespace) THEN {} ELSE tables[n]]
    /\ out' = Some([op |-> "cache_clear_namespace", name |-> namespace, arg |-> None,
                    before |-> tables, ret |-> None])
    /\ nCalls' = nCalls + 1
    /\ UNCHANGED <<caches, created, got, context, mutex, heap>>

NextNamespace ==
    /\ nCalls < MaxCalls
    /\ \/ \E namespace \in Namespaces, k \in Keys : cache_get(1, namespace, k)
       \/ \E namespace \in Namespaces, k \in Keys : cache_invalidate(namespace, k)
       \/ \E namespace \in Namespaces : cache_clear_namespace(namespace)
    /\ UNCHANGED <<policy, storage, writer, hits, misses, stats, now,
                   pc, op, loc, result, pre, nGets, last, script, answers,
                   handles, via, ended, context, mutex, heap>>

InitNamespace == \E p \in {q \in Policies : q.kind = "None"} : InitCache(p, Free)

SpecNamespace == InitNamespace /\ [][NextNamespace]_vars

(***************************************************************************)
(* SpecContext: the threads call one CacheContext (a clone of a context    *)
(* shares its name and its map, so the threads may as well hold clones),   *)
(* MaxCalls calls in all, while time passes.  The Mutex is held for one    *)
(* step, except by a call that blocks while it holds it.  Of a sub-cache   *)
(* the policy and the entries are kept, and a call of the sub-cache is one *)
(* step.  A hit of Cache::get or Cache::get_if_cached has taken the value  *)
(* it is going to return and then waits in update_cache_stats for the      *)
(* shard it holds itself.                                                  *)
(***************************************************************************)
ContextName == "ctx"

\* format!("{}::{}", self.name, key)
context_cache_key(k) == ContextName \o "::" \o Display(k)

\* value.to_string() and result.parse::<V>() of a small integer
to_string(v) == Display(v)
parse(str) == CHOOSE n \in 0..9 : Display(n) = str

TtlPolicies ==
    {EvictionPolicy("Ttl", None, Some(d), Some(k)) : d \in 1..MaxTtl, k \in TtlType}

\* the expiry sweep of maybe_evict, at time t
Swept(c, t) ==
    IF c.policy.kind \in {"Ttl", "LruTtl"}
    THEN [c EXCEPT !.storage =
             [ck \in {x \in DOMAIN c.storage : ~is_expired(c.storage[x], t)} |->
                 c.storage[ck]]]
    ELSE c

\* Cache::insert(key, value) on the cache c at time t
Cache_insert(c, ck, value, t) ==
    Swept([c EXCEPT !.storage =
              Put(c.storage, ck,
                  CacheEntry_new(value, PolicyTtl(c.policy)[1], PolicyTtl(c.policy)[2], t))],
          t)

\* the entry a get or get_if_cached of the cache c answers with at time t
Live(c, ck, t) == ck \in DOMAIN c.storage /\ ~is_expired(c.storage[ck], t)

CacheContext_begin(t, name, k, v, p, first) ==
    /\ pc[t] = "idle"
    /\ nCalls < MaxCalls
    /\ nCalls' = nCalls + 1
    /\ op' = [op EXCEPT ![t] = name]
    /\ loc' = [loc EXCEPT ![t] = [Loc0 EXCEPT !.key = k, !.val = v, !.asked = p]]
    /\ pc' = [pc EXCEPT ![t] = first]
    /\ UNCHANGED <<now, result, last, context, mutex, heap>>

CacheContext_get_call(t) ==
    \E k \in Keys, v \in Values : CacheContext_begin(t, "get", k, v, None, "cx_entry")

CacheContext_get_with_ttl_type_call(t) ==
    \E k \in Keys, v \in Values, p \in TtlPolicies :
       CacheContext_begin(t, "get_with_ttl_type", k, v, Some(p), "cx_entry")

CacheContext_insert_call(t) ==
    \E k \in Keys, v \in Values : CacheContext_begin(t, "insert", k, v, None, "cx_entry")

CacheContext_get_if_cached_call(t) ==
    \E k \in Keys : CacheContext_begin(t, "get_if_cached", k, 0, None, "cx_try")

CacheContext_clear_call(t) ==
    CacheContext_begin(t, "clear", 0, 0, None, "cx_clear")

\* { let mut caches = self.caches.lock().unwrap();
\*   caches.entry(key.clone()).or_default().clone() }, or the same with
\* .or_insert_with(|| Cache::with_policy(EvictionPolicy::Ttl { .. }))
CacheContext_entry(t) ==
    LET k == loc[t].key
        found == k \in DOMAIN context
        n == IF found THEN context[k] ELSE Len(heap) + 1
        p == IF op[t] = "get_with_ttl_type" THEN loc[t].asked[1] ELSE NoPolicy
    IN  /\ pc[t] = "cx_entry"
        /\ mutex = 0
        /\ context' = IF found THEN context ELSE Put(context, k, n)
        /\ heap' = IF found THEN heap
                   ELSE Append(heap, [policy |-> p, storage |-> EmptyMap])
        /\ loc' = [loc EXCEPT ![t].cache = n]
        /\ pc' = [pc EXCEPT ![t] = IF op[t] = "insert" THEN "cx_insert" ELSE "cx_get"]
        /\ UNCHANGED <<now, nCalls, op, result, last, mutex>>

\* cache.get(&cache_key, || compute().to_string()) on the handle taken
CacheContext_cache_get(t) ==
    LET n == loc[t].cache
        c == heap[n]
        ck == context_cache_key(loc[t].key)
    IN  /\ pc[t] = "cx_get"
        /\ IF Live(c, ck, now)
           THEN /\ heap' = [heap EXCEPT ![n].storage[ck] = touch(@, now)]
                /\ loc' = [loc EXCEPT ![t].ent = Some(c.storage[ck]), ![t].chk = now]
                /\ pc' = [pc EXCEPT ![t] = "cx_hit"]
                /\ UNCHANGED result
           ELSE /\ heap' = [heap EXCEPT ![n] =
                               Cache_insert(c, ck, to_string(loc[t].val), now)]
                /\ loc' = [loc EXCEPT ![t].calls = 1, ![t].chk = now]
                /\ result' = [result EXCEPT ![t] = Some(parse(to_string(loc[t].val)))]
                /\ pc' = [pc EXCEPT ![t] = "cx_return"]
        /\ UNCHANGED <<now, nCalls, op, last, context, mutex>>

\* cache.insert(cache_key, value.to_string()) on the handle taken
CacheContext_cache_insert(t) ==
    LET n == loc[t].cache
        ck == context_cache_key(loc[t].key)
    IN  /\ pc[t] = "cx_insert"
        /\ heap' = [heap EXCEPT ![n] = Cache_insert(heap[n], ck, to_string(loc[t].val), now)]
        /\ loc' = [loc EXCEPT ![t].chk = now]
        /\ pc' = [pc EXCEPT ![t] = "cx_return"]
        /\ UNCHANGED <<now, nCalls, op, result, last, context, mutex>>

\* get_if_cached: the whole call under the Mutex
CacheContext_get_if_cached(t) ==
    LET k == loc[t].key
        ck == context_cache_key(k)
    IN  /\ pc[t] = "cx_try"
        /\ mutex = 0
        /\ IF k \notin DOMAIN context
           THEN /\ pc' = [pc EXCEPT ![t] = "cx_return"]
                /\ UNCHANGED <<heap, loc, mutex>>
           ELSE LET n == context[k]
                    c == heap[n]
                IN  IF Live(c, ck, now)
                    THEN /\ heap' = [heap EXCEPT ![n].storage[ck] = touch(@, now)]
                         /\ loc' = [loc EXCEPT ![t].cache = n,
                                               ![t].ent = Some(c.storage[ck]),
                                               ![t].chk = now]
                         /\ mutex' = t
                         /\ pc' = [pc EXCEPT ![t] = "cx_hit"]
                    ELSE /\ heap' = [heap EXCEPT ![n].storage = Remove(@, ck)]
                         /\ loc' = [loc EXCEPT ![t].cache = n, ![t].chk = now]
                         /\ pc' = [pc EXCEPT ![t] = "cx_return"]
                         /\ UNCHANGED mutex
        /\ UNCHANGED <<now, nCalls, op, result, last, context>>

\* clear: every sub-cache of the map cleared, then the map
CacheContext_clear(t) ==
    /\ pc[t] = "cx_clear"
    /\ mutex = 0
    /\ heap' = [n \in DOMAIN heap |->
                   IF \E k \in DOMAIN context : context[k] = n
                   THEN [heap[n] EXCEPT !.storage = EmptyMap]
                   ELSE heap[n]]
    /\ context' = EmptyMap
    /\ pc' = [pc EXCEPT ![t] = "cx_return"]
    /\ UNCHANGED <<now, nCalls, op, loc, result, last, mutex>>

CacheContext_return(t) ==
    /\ pc[t] = "cx_return"
    /\ last' = [last EXCEPT ![t] = [name |-> op[t], key |-> loc[t].key, ret |-> result[t]]]
    /\ op' = [op EXCEPT ![t] = "none"]
    /\ loc' = [loc EXCEPT ![t] = Loc0]
    /\ result' = [result EXCEPT ![t] = None]
    /\ pc' = [pc EXCEPT ![t] = "idle"]
    /\ UNCHANGED <<now, nCalls, context, mutex, heap>>

\* time passes
Elapse ==
    /\ now < MaxTime
    /\ now' = now + 1
    /\ UNCHANGED <<nCalls, pc, op, loc, result, last, context, mutex, heap>>

StepContext(t) ==
    \/ CacheContext_get_call(t)
    \/ CacheContext_get_with_ttl_type_call(t)
    \/ CacheContext_insert_call(t)
    \/ CacheContext_get_if_cached_call(t)
    \/ CacheContext_clear_call(t)
    \/ CacheContext_entry(t)
    \/ CacheContext_cache_get(t)
    \/ CacheContext_cache_insert(t)
    \/ CacheContext_get_if_cached(t)
    \/ CacheContext_clear(t)
    \/ CacheContext_return(t)

NextContext ==
    /\ \/ Elapse
       \/ \E t \in Threads : StepContext(t)
    /\ UNCHANGED <<policy, storage, writer, hits, misses, stats, pre, nGets, script,
                   answers, handles, via, ended, caches, created, got, out, tables>>

InitContext == \E p \in {q \in Policies : q.kind = "None"} : InitCache(p, Free)

SpecContext == InitContext /\ [][NextContext]_vars

(***************************************************************************)
(* SpecDuration: parse_duration is applied to strings of any content up to *)
(* MaxStrLen characters.  A string is the sequence of its characters.      *)
(***************************************************************************)
DurationChars == {" ", "-", ".", "1", "m", "s", "S", "x"}

Inputs == UNION {[1..n -> DurationChars] : n \in 0..MaxStrLen}

is_alphabetic(c) == c \in {"m", "s", "S", "x"}
is_digit(c) == c \in {"0", "1", "2", "3", "4", "5", "6", "7", "8", "9"}

to_lowercase(c) == IF c = "S" THEN "s" ELSE c

\* the characters of a sequence as one string
RECURSIVE Concat(_)
Concat(cs) == IF cs = <<>> THEN "" ELSE Head(cs) \o Concat(Tail(cs))

SetMin(S) == CHOOSE x \in S : \A y \in S : x <= y
SetMax(S) == CHOOSE x \in S : \A y \in S : x >= y

trim(cs) ==
    LET inked == {i \in 1..Len(cs) : cs[i] # " "}
    IN  IF inked = {} THEN <<>> ELSE SubSeq(cs, SetMin(inked), SetMax(inked))

DurationError(kind, text) ==
    [ok |-> FALSE, err |-> kind, text |-> text, secs |-> 0, nanos |-> 0]

Duration(secs, nanos) ==
    [ok |-> TRUE, err |-> "", text |-> "", secs |-> secs, nanos |-> nanos]

TimeUnit_try_from(unit) ==
    LET u == Concat([i \in 1..Len(unit) |-> to_lowercase(unit[i])])
    IN  CASE u \in {"ns", "nanosecond", "nanoseconds"} -> Some("Nanosecond")
          [] u \in {"us", "microsecond", "microseconds"} -> Some("Microsecond")
          [] u \in {"ms", "millisecond", "milliseconds"} -> Some("Millisecond")
          [] u \in {"s", "sec", "second", "seconds"} -> Some("Second")
          [] u \in {"m", "min", "minute", "minutes"} -> Some("Minute")
          [] u \in {"h", "hr", "hour", "hours"} -> Some("Hour")
          [] u \in {"d", "day", "days"} -> Some("Day")
          [] OTHER -> None

\* str::parse::<f64> on a text without letters: an optional sign, then digits
\* with at most one '.' among them and at least one digit
parses_f64(cs) ==
    LET body == IF cs # <<>> /\ Head(cs) \in {"+", "-"} THEN Tail(cs) ELSE cs
    IN  /\ \A i \in 1..Len(body) : is_digit(body[i]) \/ body[i] = "."
        /\ Cardinality({i \in 1..Len(body) : body[i] = "."}) <= 1
        /\ \E i \in 1..Len(body) : is_digit(body[i])

DigitValue(c) == CHOOSE n \in 0..9 : Display(n) = c

RECURSIVE Pow10(_)
Pow10(k) == IF k = 0 THEN 1 ELSE 10 * Pow10(k - 1)

\* the value of an unsigned number text as a fraction: <<numerator, 10^k>>
RECURSIVE Numerator(_)
Numerator(ds) ==
    IF ds = <<>> THEN 0 ELSE 10 * Numerator(SubSeq(ds, 1, Len(ds) - 1)) + DigitValue(ds[Len(ds)])

f64_value(cs) ==
    LET body == IF Head(cs) = "+" THEN Tail(cs) ELSE cs
        digits == SelectSeq(body, is_digit)
        dots == {i \in 1..Len(body) : body[i] = "."}
        k == IF dots = {} THEN 0 ELSE Len(body) - SetMin(dots)
    IN  <<Numerator(digits), Pow10(k)>>

\* number.round() as u64: to the nearest integer, halves away from zero
round(x) == (2 * x[1] + x[2]) \div (2 * x[2])

\* the nanoseconds of a second
OneSecond == Pow10(9)

\* Duration::from_secs_f64(number * mult)
from_secs_f64(x, mult) ==
    Duration((x[1] * mult) \div x[2], ((x[1] * mult) % x[2]) * (OneSecond \div x[2]))

parse_duration(input) ==
    LET st == trim(input)
        letters == {i \in 1..Len(st) : is_alphabetic(st[i])}
    IN  IF st = <<>> THEN DurationError("EmptyString", "")
        ELSE IF letters = {} THEN DurationError("MissingUnit", "")
        ELSE LET pos == SetMin(letters)
                 num_str == trim(SubSeq(st, 1, pos - 1))
                 unit_str == trim(SubSeq(st, pos, Len(st)))
                 unit == TimeUnit_try_from(unit_str)
             IN  IF num_str # <<>> /\ Head(num_str) = "-"
                 THEN DurationError("InvalidNumber", Concat(num_str))
                 ELSE IF ~parses_f64(num_str)
                 THEN DurationError("InvalidNumber", Concat(num_str))
                 ELSE IF unit = None
                 THEN DurationError("UnknownUnit",
                         Concat([i \in 1..Len(unit_str) |-> to_lowercase(unit_str[i])]))
                 ELSE LET number == f64_value(num_str)
                      IN  CASE unit[1] = "Nanosecond" ->
                                  Duration(round(number) \div OneSecond,
                                           round(number) % OneSecond)
                            [] unit[1] = "Microsecond" ->
                                  Duration(round(number) \div 1000000,
                                           (round(number) % 1000000) * 1000)
                            [] unit[1] = "Millisecond" ->
                                  Duration(round(number) \div 1000,
                                           (round(number) % 1000) * 1000000)
                            [] unit[1] = "Second" -> from_secs_f64(number, 1)
                            [] unit[1] = "Minute" -> from_secs_f64(number, 60)
                            [] unit[1] = "Hour" -> from_secs_f64(number, 3600)
                            [] unit[1] = "Day" -> from_secs_f64(number, 86400)

parse_duration_call ==
    \E input \in Inputs :
       out' = Some([op |-> "parse_duration", name |-> 0, arg |-> Some(input),
                    before |-> stats, ret |-> Some(parse_duration(input))])

NextDuration ==
    /\ parse_duration_call
    /\ UNCHANGED <<policy, storage, writer, hits, misses, stats, now,
                   pc, op, loc, result, pre, nGets, nCalls, last, script, answers,
                   handles, via, ended, caches, created, got, tables, context, mutex, heap>>

InitDuration == \E p \in {q \in Policies : q.kind = "None"} : InitCache(p, Free)

SpecDuration == InitDuration /\ [][NextDuration]_vars

(***************************************************************************)
(* SpecTtlConc: the threads call a cache built with a Ttl policy           *)
(* concurrently.  A Ttl policy has no limit: maybe_evict stops after the   *)
(* expiry sweep.                                                           *)
(***************************************************************************)
StepTtl(t) ==
    \/ get(t)
    \/ get_if_cached(t)
    \/ insert(t)
    \/ invalidate(t)
    \/ clear(t)
    \/ me_scan(t)
    \/ me_remove(t)
    \/ me_policy(t)
    \/ update_cache_stats(t)
    \/ Return(t)

InitTtl == \E p \in {q \in Policies : q.kind = "Ttl"} : InitCache(p, Free)

NextTtlConc ==
    \/ Tick
    \/ \E t \in Threads :
          /\ pc[t] = "idle" => nCalls < MaxCalls
          /\ StepTtl(t)

SpecTtlConc == InitTtl /\ [][NextTtlConc]_vars

(***************************************************************************)
(* SpecScenario: one thread makes the calls of a scenario, each at its     *)
(* time.  The time unit of the scenarios is 50 ms.                         *)
(***************************************************************************)
At(time, name, k, v) == [at |-> time, call |-> Call(name, k, v)]

Scenario(name, p, calls) == [name |-> name, policy |-> p, calls |-> calls]

\* capacity 2: insert A, B, C; read B; insert D
LruScenario ==
    Scenario("lru", EvictionPolicy("Lru", Some(2), None, None),
             <<At(0, "insert", 1, 1), At(1, "insert", 2, 1), At(2, "insert", 3, 1),
               At(3, "get_if_cached", 2, 0), At(4, "insert", 4, 1)>>)

\* Fixed TTL of 200 ms: insert K -> 1 at t0, read at t0 + 100 ms, read at t0 + 250 ms
FixedScenario ==
    Scenario("fixed", EvictionPolicy("Ttl", None, Some(4), Some("Fixed")),
             <<At(0, "insert", 1, 1), At(2, "get", 1, 2), At(5, "get", 1, 2)>>)

\* Sliding TTL of 100 ms: insert K, three reads 50 ms apart, a read 100 ms later
SlidingScenario ==
    Scenario("sliding", EvictionPolicy("Ttl", None, Some(2), Some("Sliding")),
             <<At(0, "insert", 1, 1), At(1, "get_if_cached", 1, 0),
               At(2, "get_if_cached", 1, 0), At(3, "get_if_cached", 1, 0),
               At(5, "get_if_cached", 1, 0)>>)

\* get on a fresh key, followed by a get or a get_if_cached of the same key
FreshGetScenario ==
    Scenario("fresh_get", EvictionPolicy("None", None, None, None),
             <<At(0, "get", 1, 1), At(0, "get", 1, 2)>>)

FreshTryScenario ==
    Scenario("fresh_try", EvictionPolicy("None", None, None, None),
             <<At(0, "get", 1, 1), At(0, "get_if_cached", 1, 0)>>)

FreshZeroScenario ==
    Scenario("fresh_zero", EvictionPolicy("Lru", Some(0), None, None),
             <<At(0, "get", 1, 1), At(0, "get_if_cached", 1, 0)>>)

Scenarios ==
    {LruScenario, FixedScenario, SlidingScenario,
     FreshGetScenario, FreshTryScenario, FreshZeroScenario}

InitScenario ==
    \E s \in Scenarios :
        InitCache(s.policy, [free |-> FALSE, name |-> s.name, calls |-> s.calls])

ScenarioCall(t) ==
    /\ script.calls # <<>>
    /\ LET c == Head(script.calls).call
       IN  \/ get_call(t, c.key, c.val)
           \/ gic_call(t, c.key)
           \/ insert_call(t, c.key, c.val)

ScenarioStep(t) ==
    \/ ScenarioCall(t)
    \/ get_lookup(t)
    \/ get_get_mut(t)
    \/ get_touch(t)
    \/ get_hit_count(t)
    \/ get_miss(t)
    \/ get_compute(t)
    \/ get_new(t)
    \/ get_store(t)
    \/ get_miss_return(t)
    \/ gic_get_mut(t)
    \/ gic_check(t)
    \/ gic_touch(t)
    \/ gic_hit_count(t)
    \/ gic_none(t)
    \/ insert_new(t)
    \/ insert_store(t)
    \/ insert_return(t)
    \/ me_scan(t)
    \/ me_policy(t)
    \/ me_len(t)
    \/ me_count(t)
    \/ evict_lru(t)
    \/ update_cache_stats(t)
    \/ Return(t)

NextScenario == Tick \/ ScenarioStep(1)

SpecScenario == InitScenario /\ [][NextScenario]_vars

(***************************************************************************)
(* What the properties speak of.                                           *)
(***************************************************************************)
UcsPcs == {"ucs_hits", "ucs_misses", "ucs_len", "ucs_rate_hits", "ucs_register"}
HitReturns == {"get_hit_return", "gic_hit_return"}

\* the thread answers from the stored entry: it is past the expiry check of
\* a hit and has not returned yet
InHitPath(t) ==
    \/ pc[t] \in {"get_get_mut", "get_touch", "get_hit_count", "gic_touch", "gic_hit_count"}
    \/ pc[t] \in HitReturns
    \/ pc[t] \in UcsPcs /\ loc[t].cont \in HitReturns

\* the thread waits for the lock of a shard whose write lock it holds itself:
\* no step of any thread releases that lock, the call never returns
NeverReturns(t) == pc[t] = "ucs_len" /\ writer[loc[t].cursor] = t

\* the expiry rule: a Fixed TTL runs from created_at, a Sliding one from
\* last_accessed; the entry is expired once the TTL has elapsed
Elapsed(e, t) ==
    /\ e.ttl # None
    /\ IF e.ttl_type = Some("Sliding")
       THEN t >= e.last_accessed + e.ttl[1]
       ELSE t >= e.created_at + e.ttl[1]

Quiescent == \A t \in Threads : pc[t] \in {"idle", "done"}

IsPrefix(a, b) == Len(a) <= Len(b) /\ \A i \in 1..Len(a) : a[i] = b[i]

\* the entry of key k was touched by the call of t, once, at a time of the call
Touched(t, k) ==
    /\ DOMAIN storage = DOMAIN pre[t].storage
    /\ \A x \in DOMAIN storage \ {k} : storage[x] = pre[t].storage[x]
    /\ storage[k].access_count = pre[t].storage[k].access_count + 1
    /\ storage[k].last_accessed \in loc[t].chk..now
    /\ storage[k] = [pre[t].storage[k] EXCEPT !.access_count = storage[k].access_count,
                                              !.last_accessed = storage[k].last_accessed]

\* C1: under a capacity-bearing policy (Lru(c), or LruTtl with limit c), in
\* a single-threaded sequence of get, get_if_cached, insert, invalidate and
\* clear calls, the table holds at most c entries after each call returns.
C1_CapacityBound ==
    (HasLimit /\ Quiescent) => Cardinality(DOMAIN storage) <= policy.limit[1]

\* an insert or a get miss of a new key into a table that was full has
\* returned, and the table is full again
C1_Witness ==
    /\ HasLimit
    /\ policy.limit[1] >= 1
    /\ pc[1] = "done"
    /\ op[1] \in {"insert", "get"}
    /\ loc[1].ent # None
    /\ loc[1].key \notin DOMAIN pre[1].storage
    /\ Cardinality(DOMAIN pre[1].storage) = policy.limit[1]
    /\ Cardinality(DOMAIN storage) = policy.limit[1]

\* the table as the insert or the get miss of t left it, before the sweeps
Stored(t) == Put(pre[t].storage, loc[t].key, loc[t].ent[1])

NotAfter(a, b) ==
    \/ a.last_accessed < b.last_accessed
    \/ a.last_accessed = b.last_accessed /\ a.created_at <= b.created_at

SweepDone(t) ==
    /\ policy.kind = "Lru"
    /\ op[t] \in {"insert", "get"}
    /\ loc[t].ent # None
    /\ pc[t] \in UcsPcs \cup {"insert_return", "get_miss_return", "done"}

\* C2: in a single-threaded sequence, when an insert or a get miss leaves
\* the table with more than c entries the capacity sweep removes exactly
\* size - c entries, each not more recently used (by last_accessed, then
\* created_at) than any entry it keeps, where every hit of get or
\* get_if_cached refreshes last_accessed; with capacity 2, insert A, B, C
\* leaves {B, C}, and a read of B followed by insert D leaves {B, D}.
C2_SweepAndScenario ==
    /\ \A t \in Threads :
          SweepDone(t) =>
             /\ Cardinality(DOMAIN Stored(t)) > policy.limit[1]
                   => Cardinality(DOMAIN storage) = policy.limit[1]
             /\ Cardinality(DOMAIN Stored(t)) <= policy.limit[1] => storage = Stored(t)
             /\ \A k \in DOMAIN storage : k \in DOMAIN Stored(t) /\ storage[k] = Stored(t)[k]
             /\ \A k \in DOMAIN Stored(t) \ DOMAIN storage, r \in DOMAIN storage :
                   NotAfter(Stored(t)[k], storage[r])
    /\ script.name = "lru" =>
          /\ \A t \in Threads : ~NeverReturns(t)
          /\ (Quiescent /\ Len(answers) = 3) => DOMAIN storage = {2, 3}
          /\ (Quiescent /\ Len(answers) = 4) =>
                /\ answers[4] = Some(1)
                /\ DOMAIN storage = {2, 3}
                /\ storage[2].last_accessed > storage[3].last_accessed
          /\ (Quiescent /\ Len(answers) = 5) => DOMAIN storage = {2, 4}

\* C3: get and get_if_cached never return the value of an entry that is
\* expired when the value is read for return; a call that finds the entry
\* expired removes it and does not answer with it (get_if_cached answers
\* empty, get answers what it computes, once), whatever the clock and the
\* other threads do in between; a call answers from the stored entry only
\* if its expiry check found the entry alive.
C3_NeverAnswersExpired ==
    \A t \in Threads :
       (op[t] \in {"get", "get_if_cached"}) =>
          /\ pc[t] \in HitReturns => ~Elapsed(storage[loc[t].key], now)
          /\ (InHitPath(t) /\ pc[t] # "get_get_mut") =>
                loc[t].key \in DOMAIN storage
          /\ (InHitPath(t) \/ (pc[t] = "done" /\ loc[t].calls = 0 /\ result[t] # None)) =>
                /\ loc[t].seen # None
                /\ ~Elapsed(loc[t].seen[1], loc[t].chk)
          /\ (loc[t].seen # None /\ Elapsed(loc[t].seen[1], loc[t].chk)) =>
                /\ ~InHitPath(t)
                /\ pc[t] \in {"get_remove", "gic_remove"} \/ loc[t].removed
                /\ pc[t] = "done" =>
                      IF op[t] = "get"
                      THEN loc[t].calls = 1 /\ result[t] = Some(loc[t].val)
                      ELSE loc[t].calls = 0 /\ result[t] = None

\* a get found the entry expired, removed it and has returned what it computed
C3_Witness ==
    \E t \in Threads :
       /\ op[t] = "get"
       /\ pc[t] = "done"
       /\ loc[t].seen # None
       /\ Elapsed(loc[t].seen[1], loc[t].chk)
       /\ loc[t].removed
       /\ result[t] = Some(loc[t].val)

\* C4: under Ttl(d, Fixed) an entry stored at t0 is a hit for every read
\* before t0 + d and absent for every read at or after t0 + d.  With a TTL
\* of 200 ms and K -> 1 inserted at t0: the get at t0 + 100 ms returns 1
\* and does not compute, the get at t0 + 250 ms computes again.
C4_FixedScenario ==
    script.name = "fixed" =>
       /\ \A t \in Threads : ~NeverReturns(t)
       /\ IsPrefix(answers, <<None, Some(1), Some(2)>>)
       /\ (Quiescent /\ Len(answers) = 2) => hits = 1 /\ misses = 0
       /\ (Quiescent /\ Len(answers) = 3) => hits = 1 /\ misses = 1

\* C5: under Ttl(d, Sliding) an entry read again less than d after its
\* insertion or its previous read is a hit on each of those reads, however
\* many; after a gap of d or more the next read finds it expired.  With a
\* TTL of 100 ms, reads 50 ms apart all return the value, the read 100 ms
\* after the last one returns empty.
C5_SlidingScenario ==
    script.name = "sliding" =>
       /\ \A t \in Threads : ~NeverReturns(t)
       /\ IsPrefix(answers, <<None, Some(1), Some(1), Some(1), None>>)
       /\ (Quiescent /\ Len(answers) \in 1..4) => hits = Len(answers) - 1
       /\ misses = 0

\* C6: get on an absent key calls compute exactly once and returns its
\* result; a get or a get_if_cached of the same key that follows at once
\* returns the same value and does not call compute.
C6_ComputeOnce ==
    script.name \in {"fresh_get", "fresh_try", "fresh_zero"} =>
       /\ \A t \in Threads : ~NeverReturns(t)
       /\ IsPrefix(answers, <<Some(1), Some(1)>>)
       /\ misses <= 1
       /\ \A t \in Threads : loc[t].calls <= 1
       /\ Len(answers) >= 1 => misses = 1

\* C7: every get or get_if_cached of a key that is present and not expired
\* terminates and returns the stored value: no call ever waits for a
\* storage lock that the calling thread holds itself.
C7_NeverBlocksOnOwnLocks ==
    \A t \in Threads : InHitPath(t) => ~NeverReturns(t)

\* the keys a call of t leaves in the table by its own explicit effect
KeysAfter(t) ==
    CASE op[t] \in {"insert", "get"} -> DOMAIN pre[t].storage \cup {loc[t].key}
      [] op[t] = "invalidate" -> DOMAIN pre[t].storage \ {loc[t].key}
      [] op[t] = "clear" -> {}
      [] OTHER -> DOMAIN pre[t].storage

\* C8: under policy None no entry is ever removed by expiry or by capacity:
\* in every sequence of calls the keys of the table are the keys inserted
\* or computed so far less those invalidated or cleared, each call changing
\* the keys by its own key only.
C8_NoneKeepsEverything ==
    policy.kind = "None" =>
       \A t \in Threads :
          /\ pc[t] \notin {"get_remove", "gic_remove", "me_len", "me_count",
                           "el_scan", "el_sort", "el_remove"}
          /\ pc[t] = "me_remove" => loc[t].acc = <<>>
          /\ \A k \in DOMAIN storage : ~Elapsed(storage[k], now)
          /\ pc[t] = "done" => DOMAIN storage = KeysAfter(t)
          /\ (pc[t] \notin {"idle", "done"} /\ op[t] # "clear") =>
                DOMAIN storage \in {DOMAIN pre[t].storage, KeysAfter(t)}
          /\ (pc[t] # "idle" /\ op[t] = "clear") => DOMAIN storage \subseteq DOMAIN pre[t].storage

\* under None a get has computed the last key absent: every key is in the table
C8_Witness ==
    /\ policy.kind = "None"
    /\ pc[1] = "done"
    /\ op[1] = "get"
    /\ loc[1].calls = 1
    /\ now > 0
    /\ DOMAIN storage = Keys
    /\ DOMAIN pre[1].storage = Keys \ {loc[1].key}

\* C9: invalidate of an absent key returns false and leaves the table and
\* both counters as they were; of a present key it returns true, removes
\* that key only and leaves both counters as they were; a get_if_cached of
\* the key right after returns empty; a second invalidate right after a
\* first that returned true returns false.
C9_InvalidateFrame ==
    \A t \in Threads :
       /\ (op[t] = "invalidate" /\ pc[t] = "done") =>
             /\ result[t] = Some(loc[t].key \in DOMAIN pre[t].storage)
             /\ storage = Remove(pre[t].storage, loc[t].key)
             /\ loc[t].key \notin DOMAIN pre[t].storage => storage = pre[t].storage
             /\ hits = pre[t].hits
             /\ misses = pre[t].misses
             /\ loc[t].prev.ret = Some(TRUE) => result[t] = Some(FALSE)
       /\ (op[t] = "get_if_cached" /\ loc[t].prev.ret = Some(TRUE)) =>
             /\ pc[t] \in {"gic_get_mut", "gic_none", "done"}
             /\ pc[t] = "done" => result[t] = None

\* invalidate twice in a row: the first returned true, the second false
C9_Witness ==
    /\ op[1] = "invalidate"
    /\ pc[1] = "done"
    /\ loc[1].prev = [name |-> "invalidate", key |-> loc[1].key, ret |-> Some(TRUE)]
    /\ result[1] = Some(FALSE)
    /\ storage # EmptyMap

\* C10: get_if_cached never creates an entry and never changes the miss
\* counter: on an absent or expired key it returns empty with hits and
\* misses unchanged; on a live key it adds exactly one to hits and touches
\* the entry.
C10_TryGetFrame ==
    \A t \in Threads :
       (op[t] = "get_if_cached" /\ pc[t] # "idle") =>
          LET k == loc[t].key
              live == loc[t].seen # None /\ ~Elapsed(loc[t].seen[1], loc[t].chk)
          IN  /\ misses = pre[t].misses
              /\ loc[t].calls = 0
              /\ DOMAIN storage \subseteq DOMAIN pre[t].storage
              /\ ~live => hits = pre[t].hits
              /\ pc[t] = "done" =>
                    /\ result[t] = None
                    /\ ~live
                    /\ storage = Remove(pre[t].storage, k)
              /\ (live /\ pc[t] = "gic_touch") => hits = pre[t].hits /\ storage = pre[t].storage
              /\ (live /\ pc[t] = "gic_hit_count") => hits = pre[t].hits /\ Touched(t, k)
              /\ (live /\ pc[t] \in UcsPcs \cup HitReturns) =>
                    hits = pre[t].hits + 1 /\ Touched(t, k)
              /\ live => pc[t] \in {"gic_touch", "gic_hit_count"} \cup UcsPcs \cup HitReturns

\* a get_if_cached found its key alive after the clock had advanced: it
\* has touched the entry and counted the hit
C10_Witness ==
    /\ op[1] = "get_if_cached"
    /\ pc[1] \in UcsPcs
    /\ loc[1].seen # None
    /\ ~Elapsed(loc[1].seen[1], loc[1].chk)
    /\ storage[loc[1].key].last_accessed > pre[1].storage[loc[1].key].last_accessed
    /\ hits = pre[1].hits + 1
    /\ policy.kind = "Ttl"


\* C11: insert(key, value) replaces whatever entry the key has, live or
\* expired, by a fresh one (access count 0, created_at and last_accessed
\* both the current time), then runs the eviction maintenance, and leaves
\* the hit and miss counters as they were.
C11_InsertOverwrites ==
    \A t \in Threads :
       (op[t] = "insert" /\ pc[t] # "idle") =>
          /\ hits = pre[t].hits
          /\ misses = pre[t].misses
          /\ loc[t].ent # None =>
                LET e == loc[t].ent[1]
                IN  /\ e.value = loc[t].arg
                    /\ e.access_count = 0
                    /\ e.created_at = e.last_accessed
                    /\ e.created_at <= now
                    /\ \A k \in DOMAIN pre[t].storage :
                          /\ pre[t].storage[k].created_at <= e.created_at
                          /\ pre[t].storage[k].last_accessed <= e.created_at
          /\ (pc[t] = "me_scan" /\ loc[t].cursor = 1) => storage = Stored(t)
          /\ pc[t] \in UcsPcs \cup {"insert_return", "done"} =>
                /\ \A k \in DOMAIN storage :
                      /\ k \in DOMAIN Stored(t)
                      /\ storage[k] = Stored(t)[k]
                      /\ ~Elapsed(storage[k], loc[t].ent[1].created_at)
                /\ HasLimit => Cardinality(DOMAIN storage) <= policy.limit[1]
                /\ policy.kind = "None" => storage = Stored(t)

\* an insert has replaced an entry that had expired by one created later
C11_Witness ==
    /\ op[1] = "insert"
    /\ pc[1] = "done"
    /\ loc[1].key \in DOMAIN pre[1].storage
    /\ Elapsed(pre[1].storage[loc[1].key], now)
    /\ loc[1].key \in DOMAIN storage
    /\ storage[loc[1].key] = loc[1].ent[1]
    /\ storage[loc[1].key].created_at > pre[1].storage[loc[1].key].created_at


\* C12: all clones of a handle share one storage and one pair of counters:
\* whatever handle the calls of a sequence are made through, every handle
\* observes the same entries, the same len and the same hit and miss
\* counts, those of the one table and the one pair of counters all the
\* calls have worked on.
C12_ClonesShare ==
    \A h \in 1..Len(handles) :
       /\ handles[h].storage = handles[1].storage
       /\ handles[h].hits = handles[1].hits
       /\ handles[h].misses = handles[1].misses
       /\ handles[h].policy = policy
       /\ DOMAIN Deref(handles[h].storage) = DOMAIN storage
       /\ len(handles[h]) = Cardinality(DOMAIN storage)
       /\ hit_count(handles[h]) = hits
       /\ miss_count(handles[h]) = misses

\* a get made through the clone has missed after an insert made through the
\* first handle: both handles see the two entries and the miss
C12_Witness ==
    /\ Len(handles) = 2
    /\ pc[1] = "done"
    /\ op[1] = "get"
    /\ via[1] = 2
    /\ last[1].name = "none"
    /\ 1 \in DOMAIN stats
    /\ len(handles[1]) = 2
    /\ miss_count(handles[1]) = 1
    /\ len(handles[2]) = 2


\* the call of thread t, an insert or a get that missed, has maybe_evict
\* behind it (or has not started)
MaintenanceDone(t) ==
    \/ pc[t] \in {"idle", "done", "panicked", "get_miss_return", "insert_return"}
    \/ pc[t] \in UcsPcs /\ loc[t].cont = AfterEvict(t)

\* C13: under any interleaving of concurrent insert and get-miss calls on a
\* cache with a limit, with no clear, the table holds at most limit entries
\* whenever every call that has started has its eviction maintenance behind
\* it.
C13_ConcurrentCapacity ==
    (HasLimit /\ \A t \in Threads : MaintenanceDone(t)) =>
        Cardinality(DOMAIN storage) <= policy.limit[1]

\* two calls that both started on the empty table, on different keys, have
\* both returned, and one of the two entries is left
C13_Witness ==
    /\ policy.limit = Some(1)
    /\ \A t \in Threads :
          /\ pc[t] = "done"
          /\ pre[t].storage = EmptyMap
    /\ {op[1], op[2]} = {"get", "insert"}
    /\ loc[1].key # loc[2].key
    /\ Cardinality(DOMAIN storage) = 1


\* C14: every call (get, get_if_cached, insert, invalidate, clear), also an
\* invalidate or a get_if_cached of an absent key, has published a snapshot
\* when it returns, and the snapshot's hits, misses and entries are the
\* counters and the size of the table.
C14_PublishesBeforeReturn ==
    \A t \in Threads :
       pc[t] = "done" =>
          /\ loc[t].published
          /\ CacheName(via[t]) \in DOMAIN stats
          /\ stats[CacheName(via[t])].hits = hits
          /\ stats[CacheName(via[t])].misses = misses
          /\ stats[CacheName(via[t])].entries = Cardinality(DOMAIN storage)


\* C15: when the compute function given to get panics, the call ends with
\* the panic and returns no value, compute has been invoked once, the key
\* has no entry, and every other entry of the table is as it was when the
\* call started.
C15_ComputePanics ==
    \A t \in Threads :
       loc[t].failed =>
          /\ pc[t] = "panicked"
          /\ op[t] = "get"
          /\ result[t] = None
          /\ loc[t].calls = 1
          /\ loc[t].ent = None
          /\ loc[t].key \notin DOMAIN storage
          /\ storage = Remove(pre[t].storage, loc[t].key)
          /\ writer = [s \in Shards |-> 0]

\* compute has panicked in a get of a key whose entry had expired, and the
\* table's other entry is still there
C15_Witness ==
    /\ pc[1] = "panicked"
    /\ loc[1].failed
    /\ loc[1].removed
    /\ loc[1].key \in DOMAIN pre[1].storage
    /\ storage # EmptyMap
    /\ misses = 1


\* the call thread t is in has added 1 to the hit (miss) counter
PastHit(t) ==
    \/ loc[t].cont \in HitReturns
    \/ pc[t] \in HitReturns
    \/ pc[t] = "done" /\ WasHit(t)

PastMiss(t) == op[t] = "get" /\ (pc[t] = "get_compute" \/ loc[t].calls > 0)

\* C16: the hit counter and the miss counter never decrease, whatever the
\* threads call, invalidate and clear included, and no hit or miss counted
\* concurrently is lost: each counter reads the number of calls that have
\* counted and returned plus the number of calls under way that have
\* counted; with no call under way, the n hits and m get misses completed.
C16_CountersExact ==
    /\ [](/\ hits = ended.hits + Cardinality({t \in Threads : PastHit(t)})
          /\ misses = ended.misses + Cardinality({t \in Threads : PastMiss(t)}))
    /\ [][hits' >= hits /\ misses' >= misses]_vars

\* two gets of the same absent key have both missed, concurrently, and both
\* have returned: the miss counter reads 2
C16_Witness ==
    /\ \A t \in Threads : pc[t] = "idle" /\ last[t].name = "get"
    /\ ended.misses = 2
    /\ misses = 2
    /\ Cardinality(DOMAIN storage) = 1


\* this step stores a new entry under key k (insert, or get after a miss)
Replaces(k) ==
    \E t \in Threads :
       /\ pc[t] \in {"get_store", "insert_store"}
       /\ pc'[t] = "me_scan"
       /\ loc[t].key = k
       /\ storage'[k] = loc[t].ent[1]

\* this step is the touch of the entry of key k by a get or a get_if_cached
Touches(k) ==
    \E t \in Threads :
       /\ pc[t] \in {"get_touch", "gic_touch"}
       /\ pc'[t] # pc[t]
       /\ loc[t].key = k

\* C17: every entry of the table has last_accessed >= created_at in every
\* reachable state, and an entry that stays in the table is changed by
\* touch alone (a store puts a new entry in its place): the touch adds
\* exactly 1 to access_count, does not move last_accessed backwards and
\* leaves the rest of the entry as it is.
C17_TouchOnly ==
    /\ [](\A k \in DOMAIN storage : storage[k].last_accessed >= storage[k].created_at)
    /\ [][\A k \in (DOMAIN storage) \cap (DOMAIN storage') :
             \/ storage'[k] = storage[k]
             \/ Replaces(k)
             \/ /\ Touches(k)
                /\ storage'[k].access_count = storage[k].access_count + 1
                /\ storage'[k].last_accessed >= storage[k].last_accessed
                /\ storage'[k] = [storage[k] EXCEPT
                                     !.access_count = storage'[k].access_count,
                                     !.last_accessed = storage'[k].last_accessed]]_vars

\* an entry has been touched once, later than it was created
C17_Witness ==
    \E k \in DOMAIN storage :
       /\ storage[k].access_count = 1
       /\ storage[k].last_accessed > storage[k].created_at


\* the sum of a field over the snapshots (or caches) of m, name by name
SumOf(m, field) ==
    LET upto[i \in 0..MaxHandles] ==
            IF i = 0 THEN 0
            ELSE upto[i - 1] + (IF i \in DOMAIN m THEN m[i][field] ELSE 0)
    IN  upto[MaxHandles]

\* the rate r (numerator, denominator) is 0 when h + m = 0 and h / (h + m)
\* otherwise, and lies in [0, 1]; its denominator is not 0
IsRateOf(r, h, m) ==
    /\ r[2] > 0
    /\ 0 <= r[1]
    /\ r[1] <= r[2]
    /\ h + m = 0 => r[1] = 0
    /\ h + m > 0 => r[1] * (h + m) = h * r[2]

\* C18: hit_rate() is 0 when hits + misses = 0 and hits / (hits + misses)
\* otherwise, a value in [0, 1] computed without a division by zero; the
\* hit rate of the collector's aggregate and of CacheContext::stats is the
\* same function of the summed hits and misses.
C18_HitRateRule ==
    out # None =>
       LET o == out[1]
       IN  /\ o.op = "hit_rate" => IsRateOf(o.ret[1], o.arg[1][1], o.arg[1][2])
           /\ o.op = "aggregate" =>
                 IsRateOf(o.ret[1].hit_rate, SumOf(o.before, "hits"), SumOf(o.before, "misses"))
           /\ o.op = "context_stats" =>
                 IsRateOf(o.ret[1].hit_rate, SumOf(o.arg[1], "hits"), SumOf(o.arg[1], "misses"))

\* the aggregate of two snapshots without a hit or a miss has the rate 0
C18_Witness ==
    /\ out # None
    /\ out[1].op = "aggregate"
    /\ DOMAIN stats = Names
    /\ out[1].ret[1].hits + out[1].ret[1].misses = 0
    /\ out[1].ret[1].entries > 0
    /\ out[1].ret[1].hit_rate = <<0, 1>>

\* C20: register(name, s) and update(name, s) put s in the place of any
\* snapshot stored under name and leave the other names alone, get(name)
\* returns the snapshot stored under name (None when there is none), and
\* aggregate() returns the sums of hits, misses and entries over the
\* snapshots stored, one per name; clear and remove take snapshots away.
C20_CollectorKeepsLatest ==
    out # None =>
       LET o == out[1]
       IN  /\ o.op \in {"register", "update"} =>
                 /\ DOMAIN stats = (DOMAIN o.before) \cup {o.name}
                 /\ stats[o.name] = o.arg[1]
                 /\ \A n \in (DOMAIN stats) \ {o.name} : stats[n] = o.before[n]
           /\ o.op = "get" =>
                 /\ stats = o.before
                 /\ o.name \in DOMAIN stats => o.ret = Some(stats[o.name])
                 /\ o.name \notin DOMAIN stats => o.ret = None
           /\ o.op = "aggregate" =>
                 /\ stats = o.before
                 /\ o.ret[1].hits = SumOf(stats, "hits")
                 /\ o.ret[1].misses = SumOf(stats, "misses")
                 /\ o.ret[1].entries = SumOf(stats, "entries")
           /\ o.op = "clear" => stats = EmptyMap
           /\ o.op = "remove" =>
                 /\ DOMAIN stats = (DOMAIN o.before) \ {o.name}
                 /\ \A n \in DOMAIN stats : stats[n] = o.before[n]

\* a snapshot has been registered over a different one of the same name
C20_Witness ==
    /\ out # None
    /\ out[1].op = "register"
    /\ out[1].name \in DOMAIN out[1].before
    /\ out[1].before[out[1].name].hits = 0
    /\ out[1].arg[1].hits = 1
    /\ DOMAIN stats = Names


\* what the calls of get_or_create_cache made so far have returned
Returned == UNION {{got[t][i] : i \in 1..Len(got[t])} : t \in Threads}

\* C19: the registry creates at most one cache for a (namespace, policy)
\* pair, also when threads ask for it concurrently: calls with the same pair
\* get handles of the same storage and counters, built with that policy,
\* and calls that differ in the namespace or in the policy get separate
\* caches.
C19_OneCachePerPair ==
    /\ \A i, j \in 1..Len(created) : created[i] = created[j] => i = j
    /\ \A a \in Returned : a.cache.policy = a.policy
    /\ \A a, b \in Returned :
          /\ (a.namespace = b.namespace /\ a.policy = b.policy) =>
                /\ a.cache.storage = b.cache.storage
                /\ a.cache.hits = b.cache.hits
                /\ a.cache.misses = b.cache.misses
          /\ (a.namespace # b.namespace \/ a.policy # b.policy) =>
                /\ a.cache.storage # b.cache.storage
                /\ a.cache.hits # b.cache.hits
                /\ a.cache.misses # b.cache.misses

\* each thread has asked for the same pair and for a pair of another policy:
\* two caches have been created
C19_Witness ==
    /\ got[1] # <<>>
    /\ got[2] # <<>>
    /\ got[1][1].namespace = <<"a", ":">>
    /\ got[2][1].namespace = <<"a">>
    /\ got[1][1].policy.kind = "None"
    /\ got[2][1].policy.kind = "Lru"
    /\ Len(created) = 2


\* the text s with the blanks at its two ends taken away
Stripped(cs) ==
    IF \A i \in 1..Len(cs) : cs[i] = " " THEN <<>>
    ELSE LET a == CHOOSE i \in 1..Len(cs) : cs[i] # " " /\ \A j \in 1..(i - 1) : cs[j] = " "
             b == CHOOSE i \in 1..Len(cs) : cs[i] # " " /\ \A j \in (i + 1)..Len(cs) : cs[j] = " "
         IN  [i \in 1..(b - a + 1) |-> cs[a + i - 1]]

IsLetter(c) == c \in {"m", "s", "S", "x"}

\* the part of a stripped text in front of its first letter, and the rest
NumberPart(cs) ==
    LET n == CHOOSE i \in 0..Len(cs) :
                /\ \A j \in 1..i : ~IsLetter(cs[j])
                /\ i < Len(cs) => IsLetter(cs[i + 1])
    IN  Stripped([i \in 1..n |-> cs[i]])

LetterPart(cs) ==
    LET n == Len(cs) - CHOOSE i \in 0..Len(cs) :
                /\ \A j \in 1..i : ~IsLetter(cs[j])
                /\ i < Len(cs) => IsLetter(cs[i + 1])
    IN  Stripped([i \in 1..n |-> cs[Len(cs) - n + i]])

KnownUnits == {<<"s">>, <<"S">>, <<"m">>, <<"m", "s">>, <<"m", "S">>}

\* C21: parse_duration answers the empty or all-blank string with
\* EmptyString, a text without a number in front of its letters and a text
\* without letters with MissingUnit, a number followed by letters that are
\* no unit with UnknownUnit of those letters, and a number that starts with
\* '-' with InvalidNumber of the number text.
C21_ErrorClasses ==
    (out # None /\ out[1].op = "parse_duration") =>
       LET st == Stripped(out[1].arg[1])
           ret == out[1].ret[1]
           number == NumberPart(st)
           unit == LetterPart(st)
       IN  /\ st = <<>> => (~ret.ok /\ ret.err = "EmptyString")
           /\ (st # <<>> /\ unit = <<>>) => (~ret.ok /\ ret.err = "MissingUnit")
           /\ (unit # <<>> /\ number = <<>>) => (~ret.ok /\ ret.err = "MissingUnit")
           /\ (number # <<>> /\ number[1] = "-" /\ unit # <<>>) =>
                 (~ret.ok /\ ret.err = "InvalidNumber" /\ ret.text = Concat(number))
           /\ (number \in {<<"1">>, <<"1", "1">>, <<"1", ".">>, <<".", "1">>}
                  /\ unit # <<>> /\ unit \notin KnownUnits
                  /\ \A i \in 1..Len(unit) : IsLetter(unit[i])) =>
                 (~ret.ok /\ ret.err = "UnknownUnit"
                    /\ ret.text = Concat([i \in 1..Len(unit) |-> to_lowercase(unit[i])]))


\* the compute invocations of the calls under way
RECURSIVE ComputesUnderWay(_)
ComputesUnderWay(T) ==
    IF T = {} THEN 0
    ELSE LET t == CHOOSE x \in T : TRUE
         IN  loc[t].calls + ComputesUnderWay(T \ {t})

\* the get of thread t found an entry that was not expired, and the entry
\* was gone when it looked again
GoneBetween(t) ==
    /\ op[t] = "get"
    /\ loc[t].found
    /\ ~loc[t].expired
    /\ pc[t] \notin {"get_get_mut", "get_touch", "get_hit_count"}
    /\ ~PastHit(t)

\* C22: a get adds 1 to exactly one of the two counters: to hits when it
\* takes the stored value, to misses when it invokes compute.  A get that
\* finds the entry expired, or gone between its expiry check and its second
\* lookup, counts a miss and no hit.  Over any interleaving the miss counter
\* is the number of compute invocations started by get (plus the gets that
\* have counted their miss and are about to invoke compute).
C22_GetCountsOnce ==
    /\ hits = ended.hits + Cardinality({t \in Threads : PastHit(t)})
    /\ misses = ended.misses + Cardinality({t \in Threads : PastMiss(t)})
    /\ misses = ended.computes + ComputesUnderWay(Threads)
                   + Cardinality({t \in Threads : pc[t] = "get_compute"})
    /\ \A t \in Threads :
          op[t] = "get" =>
             /\ ~(PastHit(t) /\ PastMiss(t))
             /\ loc[t].calls <= 1
             /\ PastHit(t) => loc[t].calls = 0
             /\ pc[t] = "done" => (PastHit(t) \/ PastMiss(t))
             /\ (loc[t].expired \/ loc[t].removed \/ GoneBetween(t)) => ~PastHit(t)
             /\ (pc[t] = "done" /\ (loc[t].expired \/ GoneBetween(t))) =>
                   (PastMiss(t) /\ loc[t].calls = 1)

\* a get has returned that found its entry alive and then gone: another
\* thread's expiry sweep removed it in between; one miss, no hit
C22_Witness ==
    \E t \in Threads :
       /\ pc[t] = "done"
       /\ GoneBetween(t)
       /\ loc[t].calls = 1
       /\ misses = 1
       /\ hits = 0


\* thread t is in an insert or a get miss that has stored its entry and has
\* begun the eviction maintenance
Maintained(t) ==
    /\ op[t] \in {"insert", "get"}
    /\ loc[t].ent # None
    /\ pc[t] \in {"me_len", "me_count", "el_scan", "el_sort", "el_remove",
                  "insert_return", "get_miss_return", "done"} \cup UcsPcs

StoredKeys ==
    (DOMAIN storage)
    \cup {loc[t].key : t \in {u \in Threads : op[u] \in {"insert", "get"}
                                               /\ loc[u].ent # None
                                               /\ pc[u] \notin {"get_store", "insert_store"}}}
    \cup {last[t].key : t \in {u \in Threads : last[u].name \in {"insert", "get"}}}

\* C24: overlapping capacity sweeps evict together no more than the excess
\* over the capacity: on a cache that expires nothing, once every call has
\* its eviction maintenance behind it the table holds c entries when c or
\* more distinct keys were stored, and every stored key when fewer were.
C24_NoOverEviction ==
    (policy.kind = "Lru" /\ \A t \in Threads : MaintenanceDone(t)) =>
        Cardinality(DOMAIN storage) >=
            (IF Cardinality(StoredKeys) < policy.limit[1]
             THEN Cardinality(StoredKeys) ELSE policy.limit[1])


\* C25: whenever maybe_evict has taken the second len() it calls evict_lru,
\* with a count that is at least 1 and at most the size of the table minus
\* the capacity: the subtraction does not go below zero, whatever another
\* thread removes between the size check and the subtraction.
C25_EvictCountInRange ==
    [][\A t \in Threads :
          (pc[t] = "me_count" /\ pc'[t] # "me_count") =>
             /\ pc'[t] = "el_scan"
             /\ loc'[t].count >= 1
             /\ loc'[t].count <= Cardinality(DOMAIN storage) - policy.limit[1]]_vars


\* thread t takes this step
Acts(t) == pc'[t] # pc[t] \/ loc'[t] # loc[t]

\* C26: the expiry handling of get, of get_if_cached and of the expiry
\* sweep removes expired entries only: an entry that a concurrent insert or
\* get miss has put in the place of the expired one the thread saw is not
\* removed.
C26_ExpiryRemovesExpiredOnly ==
    [][\A t \in Threads :
          (pc[t] \in {"get_remove", "gic_remove", "me_remove"} /\ Acts(t)) =>
             \A k \in (DOMAIN storage) \ (DOMAIN storage') : Elapsed(storage[k], now)]_vars


\* the caches created for the namespace
CachesOf(namespace) ==
    {n \in 1..Len(created) : created[n].namespace = namespace}

\* C27: cache_invalidate(namespace, key) and cache_clear_namespace(namespace)
\* change the caches created for exactly that namespace and no others, also
\* not those of a namespace that begins with the given one, and
\* cache_invalidate returns true exactly when a cache of that namespace held
\* the key.
C27_NamespaceFrame ==
    (out # None /\ out[1].op \in {"cache_invalidate", "cache_clear_namespace"}) =>
       LET o == out[1]
       IN  /\ \A n \in (1..Len(created)) \ CachesOf(o.name) :
                 KeysOf(tables, n) = KeysOf(o.before, n)
           /\ o.op = "cache_invalidate" =>
                 /\ \A n \in CachesOf(o.name) :
                       KeysOf(tables, n) = KeysOf(o.before, n) \ {o.arg[1]}
                 /\ o.ret = Some(\E n \in CachesOf(o.name) : o.arg[1] \in KeysOf(o.before, n))
           /\ o.op = "cache_clear_namespace" =>
                 \A n \in CachesOf(o.name) : KeysOf(tables, n) = {}


\* the entry e, taken at time t, is expired under the ttl and kind of policy p
ExpiredUnder(e, p, t) ==
    is_expired([e EXCEPT !.ttl = p.duration, !.ttl_type = p.ttl_type], t)

Held == {context[k] : k \in DOMAIN context}

\* C29: clear leaves the context with no sub-cache and no entry in the
\* sub-caches it held, and an insert or get never stores its value in a
\* sub-cache the context no longer holds under the key: the value is there
\* for a later get_if_cached of the key.
C29_ClearAndStore ==
    [][\A t \in Threads :
          /\ (pc[t] = "cx_clear" /\ pc'[t] = "cx_return") =>
                /\ context' = EmptyMap
                /\ \A n \in Held : heap'[n].storage = EmptyMap
          /\ (pc[t] \in {"cx_insert", "cx_get"} /\ pc'[t] = "cx_return") =>
                /\ loc[t].key \in DOMAIN context'
                /\ context'[loc[t].key] = loc[t].cache
                /\ context_cache_key(loc[t].key) \in DOMAIN heap'[loc[t].cache].storage]_vars

====
